---- MODULE Spec2Model ----
(***************************************************************************)
(* Model of the search core of the Steam game search engine.               *)
(*                                                                         *)
(* Two back ends are modelled:                                             *)
(*   - backend/app: SearchService.search (lexical, BM25),                  *)
(*     SearchService.semantic_search (pgvector RPC with Python fallback),  *)
(*     SearchService.hybrid_search (reciprocal rank fusion) and the        *)
(*     FastAPI endpoints that wrap their result in SearchResponse;         *)
(*   - backend-INST326-steam-search: SearchService.search_games (mock      *)
(*     BM25 + mock semantic + weighted fusion + filters).                  *)
(*                                                                         *)
(* Numbers.  Scores are floats in the code.  The model keeps them exact:   *)
(*   - BM25 scores are round(x, 4) in the code, here integers in 1e-4;     *)
(*   - similarities are integers in the same way;                          *)
(*   - alpha is alphaNum / AlphaDen;                                       *)
(*   - an RRF score is an integer numerator over AlphaDen * RRFDen, where  *)
(*     RRFDen is the product of (k + rank) over the ranks that can occur.  *)
(***************************************************************************)
EXTENDS Integers, Sequences, FiniteSets, TLC

VARIABLES
    phase,      \* "idle": no request in progress; "responded": a handler has returned
    op,         \* the handler that produced the current response
    req,        \* the request: query, filters, sort_by, offset, limit, alpha
    env,        \* what the collaborators did during the request (faults, library scores)
    svc,        \* what the service method returned (a dict) or raised
    http,       \* what the endpoint delivered to the caller
    embedding,  \* EmbeddingService class state: _model and the encode_query cache
    inflight,   \* per in-flight request: its position in the semantic pass
    files,      \* the data directory of PersistenceService
    security,   \* SecurityManager.rate_limit_cache
    clock,      \* what time.time() returns
    granted,    \* history: per rate-limit key, the times check_rate_limit returned True
    engine      \* GameSearchEngine.initialized

vars == <<phase, op, req, env, svc, http, embedding, inflight,
          files, security, clock, granted, engine>>

-----------------------------------------------------------------------------
(* Bounds of the model *)

MaxLimit == 2         \* largest page size requested
MaxOffset == 1        \* largest offset requested
MaxScore == 2         \* largest BM25 / mock score drawn for a row
MaxListLen == 2       \* longest list handed directly to a fusion function
CacheMaxSize == 2     \* capacity of the encode_query cache (maxsize, scaled down)
MaxCalls == 4         \* most cache lookups counted between two clear_cache calls
MaxTextLen == 4       \* longest text handed directly to a tokenizer, in characters
MaxHistoryLen == 2    \* longest search history saved
MaxTime == 6          \* last clock value at which the rate limiter is watched
RateWindow == 2       \* length of the rate-limit window (60 s, scaled down)
BlockSeconds == 3     \* length of a rate-limit block (300 s, scaled down)
MaxRequestsPerMinute == 2   \* config.rate_limit_requests (default 100, scaled down)

(* Program constants *)

RRF_K == 60           \* _reciprocal_rank_fusion(k=60)
FetchCap == 200       \* hybrid_search: fetch_limit = min(200, limit * 10)
FetchFactor == 10
PyFetchCap == 500     \* _python_semantic_search: .limit(min(500, limit * 10))
ScoreDigits == 6      \* round(scores[game_id], 6)
AlphaDen == 2         \* alpha is modelled as alphaNum / AlphaDen, alphaNum in 0..AlphaDen

None == -1            \* Python None for the optional integer fields

-----------------------------------------------------------------------------
(* Generic helpers *)

Min(a, b) == IF a <= b THEN a ELSE b

Range(s) == {s[i] : i \in 1..Len(s)}

\* Python slice s[lo:hi] for 0 <= lo
Slice(s, lo, hi) == SubSeq(s, lo + 1, Min(hi, Len(s)))

RECURSIVE SeqMap(_, _)
\* [f[x] for x in s]
SeqMap(s, f) == IF s = <<>> THEN <<>> ELSE <<f[Head(s)]>> \o SeqMap(Tail(s), f)

RECURSIVE SeqFilter(_, _)
\* [x for x in s if x in keep]
SeqFilter(s, keep) ==
    IF s = <<>> THEN <<>>
    ELSE (IF Head(s) \in keep THEN <<Head(s)>> ELSE <<>>) \o SeqFilter(Tail(s), keep)

\* list.sort(key=..., reverse=True) / sorted(..., reverse=True): stable, so
\* elements with equal keys keep their input order.
InsertDesc(sorted, e, kf) ==
    LET n == Cardinality({i \in 1..Len(sorted) : kf[sorted[i]] >= kf[e]})
    IN  SubSeq(sorted, 1, n) \o <<e>> \o SubSeq(sorted, n + 1, Len(sorted))

RECURSIVE StableSortDesc(_, _)
StableSortDesc(s, kf) ==
    IF s = <<>> THEN <<>>
    ELSE InsertDesc(StableSortDesc(SubSeq(s, 1, Len(s) - 1), kf), s[Len(s)], kf)

\* ORDER BY col ASC of the database; rows with equal keys stay in heap order
InsertAsc(sorted, e, kf) ==
    LET n == Cardinality({i \in 1..Len(sorted) : kf[sorted[i]] <= kf[e]})
    IN  SubSeq(sorted, 1, n) \o <<e>> \o SubSeq(sorted, n + 1, Len(sorted))

RECURSIVE StableSortAsc(_, _)
StableSortAsc(s, kf) ==
    IF s = <<>> THEN <<>>
    ELSE InsertAsc(StableSortAsc(SubSeq(s, 1, Len(s) - 1), kf), s[Len(s)], kf)

IsInjective(s) == \A i, j \in 1..Len(s) : s[i] = s[j] => i = j

-----------------------------------------------------------------------------
(* The catalog: the rows of steam.games_prod, in heap order.               *)
(* ilike: the row's name or short_description contains the query "dota";   *)
(* similarity: cosine similarity of the row's embedding with the embedding *)
(* of "dota", in 1e-4 (None when the row has no embedding);                *)
(* lex / sem: the legacy mock scorers give the row a positive score.       *)

Games == <<
    [appid |-> 2, name_key |-> 2, price_cents |-> 500, genres |-> {"Strategy"},
     categories |-> {}, type |-> "game", release_date |-> 3, total_reviews |-> 0,
     ilike |-> TRUE, similarity |-> 9000,
     review_bonus |-> -15, deck_comp |-> FALSE, lex |-> TRUE, sem |-> TRUE],
    [appid |-> 1, name_key |-> 1, price_cents |-> 0, genres |-> {"Action", "Strategy"},
     categories |-> {"Multi-player"}, type |-> "game", release_date |-> 1, total_reviews |-> 5,
     ilike |-> TRUE, similarity |-> 8000,
     review_bonus |-> 20, deck_comp |-> TRUE, lex |-> TRUE, sem |-> TRUE],
    [appid |-> 3, name_key |-> 4, price_cents |-> 0, genres |-> {"Action"},
     categories |-> {"Single-player"}, type |-> "dlc", release_date |-> 2, total_reviews |-> 2,
     ilike |-> FALSE, similarity |-> 8000,
     review_bonus |-> 0, deck_comp |-> FALSE, lex |-> FALSE, sem |-> TRUE],
    [appid |-> 4, name_key |-> 3, price_cents |-> 900, genres |-> {"Strategy"},
     categories |-> {"Multi-player"}, type |-> "game", release_date |-> 4, total_reviews |-> 1,
     ilike |-> TRUE, similarity |-> None,
     review_bonus |-> 5, deck_comp |-> FALSE, lex |-> TRUE, sem |-> FALSE]
>>

GameIds == {Games[i].appid : i \in 1..Len(Games)}

GameById(id) == CHOOSE g \in Range(Games) : g.appid = id

-----------------------------------------------------------------------------
(* Requests *)

\* SearchFilters with every field None / empty
NoFilters ==
    [price_min |-> None, price_max |-> None, genres |-> {}, categories |-> {},
     type |-> "", release_date_after |-> 0, release_date_before |-> 0,
     min_reviews |-> None]

FilterChoices ==
    { NoFilters,
      [NoFilters EXCEPT !.price_max = 0],
      [NoFilters EXCEPT !.price_min = 1],
      [NoFilters EXCEPT !.genres = {"Strategy"}],
      [NoFilters EXCEPT !.genres = {"Action", "Strategy"}],
      [NoFilters EXCEPT !.categories = {"Multi-player"}],
      [NoFilters EXCEPT !.type = "game"],
      [NoFilters EXCEPT !.min_reviews = 1] }

Queries == {"", " ", "dota"}

\* str.strip()
Strip(q) == IF q = " " THEN "" ELSE q

SortBys == {"relevance", "price_asc"}

\* The predicates a SearchFilters object states (models/search.py, docstrings
\* of SearchFilters): every non-None field constrains the item.
Satisfies(g, f) ==
    /\ f.price_min # None => g.price_cents >= f.price_min
    /\ f.price_max # None => g.price_cents <= f.price_max
    /\ f.genres \subseteq g.genres
    /\ f.categories \subseteq g.categories
    /\ f.type # "" => g.type = f.type
    /\ f.release_date_after # 0 => g.release_date >= f.release_date_after
    /\ f.release_date_before # 0 => g.release_date <= f.release_date_before
    /\ f.min_reviews # None => g.total_reviews >= f.min_reviews

\* Python truthiness of an Optional[int]
Truthy(x) == x # None /\ x # 0

-----------------------------------------------------------------------------
(* Result items.  A Python result dict has the keys its producer sets; the *)
(* model gives every item the same keys and None for a key the dict lacks. *)
(* fusion_key is the unrounded scores[game_id] the fused list is sorted by *)
(* (numerator over AlphaDen * RRFDen); the dict itself only carries the    *)
(* rounded fusion_score.                                                   *)

LexItem(g, s) ==
    [game_id |-> g.appid, bm25_score |-> s, similarity_score |-> None,
     fusion_key |-> None, fusion_score |-> None]

SemItem(g) ==
    [game_id |-> g.appid, bm25_score |-> None, similarity_score |-> g.similarity,
     fusion_key |-> None, fusion_score |-> None]

Ids(items) == [i \in 1..Len(items) |-> items[i].game_id]

-----------------------------------------------------------------------------
(* SearchService._tokenize: re.findall(r'\w+', text.lower()) *)

Tokenize(text) == IF text = "dota" THEN <<"dota">> ELSE <<>>

-----------------------------------------------------------------------------
(* The three tokenizers, character by character.  A text is a sequence of  *)
(* characters; a token is a sequence of characters too.                    *)

\* two lower-case letters, an upper-case letter, a digit, a blank and a
\* punctuation mark
Alphabet == {"a", "s", "A", "1", " ", "!"}

Texts == UNION {[1..n -> Alphabet] : n \in 0..MaxTextLen}

\* str.lower()
LowerChar(c) == IF c = "A" THEN "a" ELSE c

LowerText(text) == [i \in 1..Len(text) |-> LowerChar(text[i])]

\* [a-zA-Z]
IsLetter(c) == c \in {"a", "s", "A"}

\* \w
IsWordChar(c) == IsLetter(c) \/ c = "1"

\* \s
IsSpace(c) == c = " "

\* the maximal runs of the characters that mask marks, left to right
RECURSIVE RunsOf(_, _, _, _, _)
RunsOf(text, mask, i, cur, acc) ==
    IF i > Len(text)
    THEN IF cur = <<>> THEN acc ELSE Append(acc, cur)
    ELSE IF mask[i]
         THEN RunsOf(text, mask, i + 1, Append(cur, text[i]), acc)
         ELSE RunsOf(text, mask, i + 1, <<>>,
                     IF cur = <<>> THEN acc ELSE Append(acc, cur))

\* re.findall(r'\w+', text)
FindAllWords(text) ==
    RunsOf(text, [i \in 1..Len(text) |-> IsWordChar(text[i])], 1, <<>>, <<>>)

\* SearchService._tokenize (backend/app/services/search_service.py)
TokenizeChars(text) ==
    IF text = <<>> THEN <<>> ELSE FindAllWords(LowerText(text))

\* re.sub(r'[^\w\s]', ' ', text)
BlankPunctuation(text) ==
    [i \in 1..Len(text) |->
        IF IsWordChar(text[i]) \/ IsSpace(text[i]) THEN text[i] ELSE " "]

\* str.split()
SplitWhitespace(text) ==
    RunsOf(text, [i \in 1..Len(text) |-> ~IsSpace(text[i])], 1, <<>>, <<>>)

\* [token for token in tokens if token and len(token) > 1]
LongerThanOne(tokens) ==
    SeqFilter(tokens, {w \in Range(tokens) : w # <<>> /\ Len(w) > 1})

\* tokenize_text (search_algorithms.py)
TokenizeTextBm25(text) ==
    IF text = <<>> THEN <<>>
    ELSE LongerThanOne(SplitWhitespace(BlankPunctuation(LowerText(text))))

\* normalize_text(text, lowercase=True): lower-case, runs of whitespace
\* become one blank, strip; here the only whitespace is the blank
RECURSIVE CollapseBlanks(_)
CollapseBlanks(text) ==
    IF Len(text) < 2 THEN text
    ELSE IF IsSpace(text[1]) /\ IsSpace(text[2])
         THEN CollapseBlanks(Tail(text))
         ELSE <<text[1]>> \o CollapseBlanks(Tail(text))

RECURSIVE StripLeft(_)
StripLeft(text) ==
    IF text # <<>> /\ IsSpace(text[1]) THEN StripLeft(Tail(text)) ELSE text

RECURSIVE StripRight(_)
StripRight(text) ==
    IF text # <<>> /\ IsSpace(text[Len(text)])
    THEN StripRight(SubSeq(text, 1, Len(text) - 1))
    ELSE text

NormalizeText(text) ==
    IF text = <<>> THEN <<>>
    ELSE StripRight(StripLeft(CollapseBlanks(LowerText(text))))

AllLetters(token) == \A i \in 1..Len(token) : IsLetter(token[i])

\* re.findall(r'\b[a-zA-Z]+\b', text): the runs of word characters that
\* consist of letters only (a letter next to a digit has no boundary)
LetterWords(tokens) == SeqFilter(tokens, {w \in Range(tokens) : AllLetters(w)})

FindAllLetterWords(text) == LetterWords(FindAllWords(text))

\* _get_stop_words("english"), the ones the alphabet can spell
StopWords == {<<"a">>, <<"a", "s">>}

\* _stem_word(word, "english"): of the suffixes ing, ed, er, est, ly, s the
\* alphabet can spell only the last
StemWord(word) ==
    IF word[Len(word)] = "s" /\ Len(word) > Len(<<"s">>) + 2
    THEN SubSeq(word, 1, Len(word) - 1)
    ELSE word

\* the default of tokenize_text's min_length
MinLength == 2

\* the loop of tokenize_text: keep the tokens that are long enough and no
\* stop words
KeptTokens(tokens) ==
    SeqFilter(tokens, {w \in Range(tokens) : Len(w) >= MinLength /\ w \notin StopWords})

StemAll(tokens) == SeqMap(tokens, [w \in Range(tokens) |-> StemWord(w)])

\* tokenize_text (app/utils/text.py), language "english", min_length 2
TokenizeText(text) ==
    IF text = <<>> THEN <<>>
    ELSE StemAll(KeptTokens(FindAllLetterWords(NormalizeText(text))))

-----------------------------------------------------------------------------
(* The database behind SearchService.search: the query builder's WHERE,    *)
(* ORDER BY and range().                                                   *)

\* name ILIKE %q% OR short_description ILIKE %q%, only when query.strip()
TextMatch(g, q) == Strip(q) # "" => g.ilike

\* the filters search() hands to the query builder
LexicalWhere(g, f) ==
    /\ f.price_min # None => g.price_cents >= f.price_min
    /\ f.price_max # None => g.price_cents <= f.price_max
    /\ f.type # "" => g.type = f.type
    /\ \A x \in f.genres : x \in g.genres
    /\ \A x \in f.categories : x \in g.categories
    /\ f.release_date_after # 0 => g.release_date >= f.release_date_after
    /\ f.release_date_before # 0 => g.release_date <= f.release_date_before
    /\ f.min_reviews # None => g.total_reviews >= f.min_reviews

LexicalRows(q, f, sort_by) ==
    LET rows == SeqFilter(Games, {g \in Range(Games) : TextMatch(g, q) /\ LexicalWhere(g, f)})
    IN  CASE sort_by = "price_asc" ->
               StableSortAsc(rows, [g \in Range(rows) |-> g.price_cents])
          [] sort_by = "name" ->
               StableSortAsc(rows, [g \in Range(rows) |-> g.name_key])
          [] OTHER ->
               \* relevance: ordered by name when there is no query,
               \* otherwise no ORDER BY at all
               IF Strip(q) = ""
               THEN StableSortAsc(rows, [g \in Range(rows) |-> g.name_key])
               ELSE rows

Bm25ScoresBatch_NoTokenCheck(games, q, bm25) ==
    IF Strip(q) = "" \/ games = <<>>
    THEN [g \in Range(games) |-> 0]
    ELSE [g \in Range(games) |-> bm25[g.appid]]

\* SearchService._calculate_bm25_scores_batch; bm25 is what BM25Okapi
\* returned for the rows (name score * 2.0 + description score, round(, 4))
Bm25ScoresBatch(games, q, bm25) ==
    IF Strip(q) = "" \/ games = <<>>
    THEN [g \in Range(games) |-> 0]
    ELSE IF Tokenize(q) = <<>>
         THEN [g \in Range(games) |-> 0]
         ELSE [g \in Range(games) |-> bm25[g.appid]]

\* the list _calculate_bm25_scores_batch returns: scores[i] belongs to games[i]
Bm25ScoreList(games, scores) == [i \in 1..Len(games) |-> scores[games[i]]]

Raised == [raised |-> TRUE]

\* the result dicts search() builds from the fetched rows
ScoredItems(data, q, bm25) ==
    LET scores == Bm25ScoresBatch(data, q, bm25)
    IN  SeqMap(data, [g \in Range(data) |-> LexItem(g, scores[g])])

\* SortByBm25 that leaves the page in database order
SortByBm25_Skip(items) == items

\* results.sort(key=lambda x: x.get('bm25_score', 0), reverse=True)
SortByBm25(items) == StableSortDesc(items, [x \in Range(items) |-> x.bm25_score])

\* search() from the executed query on: rows is what the WHERE and ORDER BY
\* select, result.count is their number, result.data the requested range
SearchResult(rows, q, f, sort_by, offset, limit, bm25) ==
    LET items == ScoredItems(Slice(rows, offset, offset + limit), q, bm25)
    IN  [raised |-> FALSE,
         results |-> IF sort_by = "relevance" /\ Strip(q) # ""
                     THEN SortByBm25(items)
                     ELSE items,
         total |-> Len(rows),
         offset |-> offset, limit |-> limit, query |-> q,
         filters_applied |-> f, sort_by |-> sort_by]

\* SearchService.search
Search(q, f, sort_by, offset, limit, e) ==
    IF e.fault \in {"db", "rpc_missing_db_down"}
    THEN Raised
    ELSE SearchResult(LexicalRows(q, f, sort_by), q, f, sort_by, offset, limit, e.bm25)

-----------------------------------------------------------------------------
(* Semantic search *)

\* the filters semantic_search puts into the RPC parameters and
\* _python_semantic_search hands to the query builder
SemanticWhere(g, f) ==
    /\ Truthy(f.price_max) => g.price_cents <= f.price_max
    /\ f.type # "" => g.type = f.type
    /\ \A x \in f.genres : x \in g.genres

\* steam.search_games_semantic: rows with an embedding that pass the
\* filters given as parameters, at least min_similarity similar, most
\* similar first, match_offset / match_limit applied
RpcSearchGamesSemantic(f, limit, offset, min_similarity) ==
    LET rows == SeqFilter(Games, {g \in Range(Games) :
                    /\ g.similarity # None
                    /\ SemanticWhere(g, f)
                    /\ g.similarity >= min_similarity})
        ranked == StableSortDesc(rows, [g \in Range(rows) |-> g.similarity])
    IN  Slice(ranked, offset, offset + limit)

\* the except branch of _python_semantic_search: the BM25 result r, marked
SemanticFallbackBm25(r) ==
    IF r.raised THEN Raised
    ELSE [raised |-> FALSE, results |-> r.results, total |-> r.total,
          offset |-> r.offset, limit |-> r.limit, query |-> r.query,
          filters_applied |-> r.filters_applied, sort_by |-> r.sort_by,
          search_type |-> "semantic_fallback_bm25",
          fallback_reason |-> "Python semantic search error"]

\* _python_semantic_search from the fetched rows on
PythonSimilarities(fetched, q, f, limit, offset, min_similarity) ==
    LET kept == SeqFilter(fetched, {g \in Range(fetched) :
                    /\ ~(g.similarity < min_similarity)
                    /\ \A x \in f.genres : x \in g.genres})
        similarities == StableSortDesc(kept, [g \in Range(kept) |-> g.similarity])
        paginated == Slice(similarities, offset, offset + limit)
    IN  IF fetched = <<>>
        THEN [raised |-> FALSE, results |-> <<>>, total |-> 0,
              offset |-> offset, limit |-> limit, query |-> q,
              search_type |-> "semantic_python_fallback",
              sort_by |-> "relevance", filters_applied |-> f]
        ELSE [raised |-> FALSE,
              results |-> SeqMap(paginated, [g \in Range(paginated) |-> SemItem(g)]),
              total |-> Len(similarities),
              offset |-> offset, limit |-> limit, query |-> q,
              search_type |-> "semantic_python_fallback",
              sort_by |-> "relevance", filters_applied |-> f]

\* SearchService._python_semantic_search
PythonSemanticSearch(q, f, limit, offset, min_similarity, e) ==
    IF e.fault \in {"rpc_missing_py_fail", "rpc_missing_db_down"}
    THEN \* except: final fallback to BM25
         SemanticFallbackBm25(Search(q, f, "relevance", offset, limit, e))
    ELSE PythonSimilarities(
             Slice(SeqFilter(Games, {g \in Range(Games) :
                                 g.similarity # None /\ SemanticWhere(g, f)}),
                   0, Min(PyFetchCap, limit * 10)),
             q, f, limit, offset, min_similarity)

\* semantic_search from the RPC's rows on
RpcResult(data, q, f, limit, offset) ==
    IF data = <<>>
    THEN [raised |-> FALSE, results |-> <<>>, total |-> 0,
          offset |-> offset, limit |-> limit, query |-> q,
          search_type |-> "semantic",
          sort_by |-> "relevance", filters_applied |-> f]
    ELSE [raised |-> FALSE,
          results |-> SeqMap(data, [g \in Range(data) |-> SemItem(g)]),
          total |-> Len(data),
          offset |-> offset, limit |-> limit, query |-> q,
          search_type |-> "semantic",
          sort_by |-> "relevance", filters_applied |-> f]

\* SearchService.semantic_search (min_similarity = 0.0)
SemanticSearch(q, f, limit, offset, e) ==
    IF e.fault = "embed"
    THEN Raised                  \* EmbeddingService.encode_query raised
    ELSE IF e.fault \in {"rpc_error", "db"}
    THEN Raised                  \* rpc(...).execute() raised, not PGRST202
    ELSE IF e.fault \in {"rpc_missing", "rpc_missing_py_fail", "rpc_missing_db_down"}
    THEN PythonSemanticSearch(q, f, limit, offset, 0, e)
    ELSE RpcResult(RpcSearchGamesSemantic(f, limit, offset, 0), q, f, limit, offset)

-----------------------------------------------------------------------------
(* Reciprocal rank fusion *)

MaxRank == Len(Games)          \* no list of the model is longer than the catalog

RECURSIVE RankProduct(_)
RankProduct(r) == IF r = 0 THEN 1 ELSE (RRF_K + r) * RankProduct(r - 1)

\* common denominator of 1 / (k + rank) for rank in 1..MaxRank
RRFDen == RankProduct(MaxRank)

\* rrf_score = 1.0 / (k + rank), as a numerator over RRFDen
RrfScore(rank) == RRFDen \div (RRF_K + rank)

RECURSIVE DecimalDivide(_, _, _, _)
\* <<floor(x * 10^n), remainder>> of x = q + r / den, digit by digit
DecimalDivide(q, r, den, n) ==
    IF n = 0 THEN <<q, r>>
    ELSE DecimalDivide(q * 10 + ((r * 10) \div den), (r * 10) % den, den, n - 1)

\* round(num / den, n) as an integer in 10^-n
RoundTo(num, den, n) ==
    LET d == DecimalDivide(num \div den, num % den, den, n)
    IN  IF 2 * d[2] >= den THEN d[1] + 1 ELSE d[1]

\* the dictionaries scores / game_data: keys in insertion order
EmptyDict == [keys |-> <<>>, scores |-> <<>>, game_data |-> <<>>]

DictHas(d, id) == \E i \in 1..Len(d.keys) : d.keys[i] = id

DictIndex(d, id) == CHOOSE i \in 1..Len(d.keys) : d.keys[i] = id

\* DictSet that never finds the key: every assignment adds an entry
DictSet_AlwaysAppend(d, id, value, result) ==
    [keys |-> Append(d.keys, id), scores |-> Append(d.scores, value),
     game_data |-> Append(d.game_data, result)]

\* scores[game_id] = value; game_data[game_id] = result
DictSet(d, id, value, result) ==
    IF DictHas(d, id)
    THEN [d EXCEPT !.scores[DictIndex(d, id)] = value,
                   !.game_data[DictIndex(d, id)] = result]
    ELSE [keys |-> Append(d.keys, id), scores |-> Append(d.scores, value),
          game_data |-> Append(d.game_data, result)]

\* scores[game_id] += value
DictAdd(d, id, value) ==
    [d EXCEPT !.scores[DictIndex(d, id)] = @ + value]

RECURSIVE Bm25Loop_ZeroBased(_, _, _, _)
\* Bm25Loop with enumerate(bm25_results): the first result has rank 0
Bm25Loop_ZeroBased(d, bm25_results, rank, alphaNum) ==
    IF rank > Len(bm25_results) THEN d
    ELSE Bm25Loop_ZeroBased(DictSet(d, bm25_results[rank].game_id,
                                    alphaNum * (RRFDen \div (RRF_K + rank - 1)),
                                    bm25_results[rank]),
                            bm25_results, rank + 1, alphaNum)

RECURSIVE Bm25Loop_RawScore(_, _, _, _)
\* Bm25Loop that weights the raw BM25 score instead of the reciprocal rank
Bm25Loop_RawScore(d, bm25_results, rank, alphaNum) ==
    IF rank > Len(bm25_results) THEN d
    ELSE Bm25Loop_RawScore(DictSet(d, bm25_results[rank].game_id,
                                   alphaNum * bm25_results[rank].bm25_score * RrfScore(MaxRank),
                                   bm25_results[rank]),
                           bm25_results, rank + 1, alphaNum)

RECURSIVE Bm25Loop(_, _, _, _)
\* for rank, result in enumerate(bm25_results, start=1)
Bm25Loop(d, bm25_results, rank, alphaNum) ==
    IF rank > Len(bm25_results) THEN d
    ELSE Bm25Loop(DictSet(d, bm25_results[rank].game_id,
                          alphaNum * RrfScore(rank), bm25_results[rank]),
                  bm25_results, rank + 1, alphaNum)

RECURSIVE SemanticLoop_SkipNew(_, _, _, _)
\* SemanticLoop without the else branch: a result the BM25 list lacks is dropped
SemanticLoop_SkipNew(d, semantic_results, rank, alphaNum) ==
    IF rank > Len(semantic_results) THEN d
    ELSE LET id == semantic_results[rank].game_id
             contribution == (AlphaDen - alphaNum) * RrfScore(rank)
         IN  SemanticLoop_SkipNew(IF DictHas(d, id)
                                  THEN DictAdd(d, id, contribution)
                                  ELSE d,
                                  semantic_results, rank + 1, alphaNum)

RECURSIVE SemanticLoop(_, _, _, _)
\* for rank, result in enumerate(semantic_results, start=1)
SemanticLoop(d, semantic_results, rank, alphaNum) ==
    IF rank > Len(semantic_results) THEN d
    ELSE LET id == semantic_results[rank].game_id
             contribution == (AlphaDen - alphaNum) * RrfScore(rank)
         IN  SemanticLoop(IF DictHas(d, id)
                          THEN DictAdd(d, id, contribution)
                          ELSE DictSet(d, id, contribution, semantic_results[rank]),
                          semantic_results, rank + 1, alphaNum)

\* the return of _reciprocal_rank_fusion: sorted(scores.keys(), key=lambda x:
\* scores[x], reverse=True), each result with its rounded fusion_score
FusedList(d) ==
    LET n == Len(d.keys)
        sorted_idx == StableSortDesc([i \in 1..n |-> i], [i \in 1..n |-> d.scores[i]])
    IN  [j \in 1..n |->
            [d.game_data[sorted_idx[j]] EXCEPT
                !.fusion_key = d.scores[sorted_idx[j]],
                !.fusion_score = RoundTo(d.scores[sorted_idx[j]],
                                         AlphaDen * RRFDen, ScoreDigits)]]

\* SearchService._reciprocal_rank_fusion
ReciprocalRankFusion(bm25_results, semantic_results, alphaNum) ==
    FusedList(SemanticLoop(Bm25Loop(EmptyDict, bm25_results, 1, alphaNum),
                           semantic_results, 1, alphaNum))

\* the two early returns of hybrid_search when the semantic pass is unusable
HybridFallback(bm25_results, sort_by, limit, offset, q, f, alphaNum, reason) ==
    [raised |-> FALSE,
     results |-> Slice(bm25_results.results, 0, limit),
     total |-> bm25_results.total,
     offset |-> offset, limit |-> limit, query |-> q,
     search_type |-> "hybrid_fallback_bm25", sort_by |-> sort_by,
     alpha |-> alphaNum, fallback_reason |-> reason, filters_applied |-> f]

\* the return of hybrid_search after the fusion
HybridPage(fused_results, sort_by, limit, offset, q, f, alphaNum) ==
    [raised |-> FALSE,
     results |-> Slice(fused_results, offset, offset + limit),
     total |-> Len(fused_results),
     offset |-> offset, limit |-> limit, query |-> q,
     search_type |-> "hybrid", sort_by |-> sort_by,
     alpha |-> alphaNum, filters_applied |-> f]

\* HybridCombine without the try / except around the semantic pass
HybridCombine_Propagate(bm25_results, semantic_results, sort_by, limit, offset, q, f, alphaNum) ==
    IF bm25_results.raised \/ semantic_results.raised
    THEN Raised
    ELSE IF semantic_results.search_type = "semantic_fallback_bm25"
    THEN HybridFallback(bm25_results, sort_by, limit, offset, q, f, alphaNum,
                        "Semantic search function not available")
    ELSE HybridPage(ReciprocalRankFusion(bm25_results.results,
                                         semantic_results.results, alphaNum),
                    sort_by, limit, offset, q, f, alphaNum)

HybridCombine_FuseFallback(bm25_results, semantic_results, sort_by, limit, offset, q, f, alphaNum) ==
    IF bm25_results.raised
    THEN Raised
    ELSE IF semantic_results.raised
    THEN HybridFallback(bm25_results, sort_by, limit, offset, q, f, alphaNum,
                        "Semantic search error")
    ELSE HybridPage(ReciprocalRankFusion(bm25_results.results,
                                         semantic_results.results, alphaNum),
                    sort_by, limit, offset, q, f, alphaNum)

\* hybrid_search from the two passes on: semantic_results.raised is the
\* except branch around the semantic pass
HybridCombine(bm25_results, semantic_results, sort_by, limit, offset, q, f, alphaNum) ==
    IF bm25_results.raised
    THEN Raised
    ELSE IF semantic_results.raised
    THEN HybridFallback(bm25_results, sort_by, limit, offset, q, f, alphaNum,
                        "Semantic search error")
    ELSE IF semantic_results.search_type = "semantic_fallback_bm25"
    THEN HybridFallback(bm25_results, sort_by, limit, offset, q, f, alphaNum,
                        "Semantic search function not available")
    ELSE HybridPage(ReciprocalRankFusion(bm25_results.results,
                                         semantic_results.results, alphaNum),
                    sort_by, limit, offset, q, f, alphaNum)

\* min(200, limit * 10)
FetchLimit(limit) == Min(FetchCap, limit * FetchFactor)

\* SearchService.hybrid_search
HybridSearch(q, f, sort_by, limit, offset, alphaNum, e) ==
    IF sort_by # "relevance" \/ Strip(q) = ""
    THEN Search(q, f, sort_by, offset, limit, e)
    ELSE HybridCombine(Search(q, f, "relevance", 0, FetchLimit(limit), e),
                       SemanticSearch(q, f, FetchLimit(limit), 0, e),
                       sort_by, limit, offset, q, f, alphaNum)

-----------------------------------------------------------------------------
(* The endpoints of api/v1/search.py.  A service exception becomes HTTP    *)
(* 500; a result dict goes through SearchResponse, which keeps the fields  *)
(* the model declares and drops every other key.                           *)

SearchResponseFields ==
    {"results", "total", "offset", "limit", "query", "filters_applied", "sort_by"}

\* SearchResponse(**result)
SearchResponse(result) ==
    [k \in (DOMAIN result) \cap SearchResponseFields |-> result[k]]

Endpoint(result) ==
    IF result.raised
    THEN [status |-> 500]
    ELSE [status |-> 200, body |-> SearchResponse(result)]

-----------------------------------------------------------------------------
(* backend-INST326-steam-search: app/core/search/service.py.  Scores and   *)
(* bonuses are in tenths: the weights 0.6 / 0.4 are 6 / 4, a review bonus  *)
(* of 1.5 is 15.                                                           *)

FUSION_BM25_WEIGHT == 6         \* 0.6
FUSION_SEMANTIC_WEIGHT == 4     \* 0.4
LowPriceCents == 2000           \* game.price <= 20.0

\* SearchService._calculate_quality_bonus
CalculateQualityBonus(g) ==
    g.review_bonus
    + (IF g.deck_comp THEN 5 ELSE 0)
    + (IF g.price_cents = 0 THEN 3 ELSE IF g.price_cents <= LowPriceCents THEN 2 ELSE 0)

\* GameInfo.matches_filters, for the keys price_max, price_min and genres
MatchesFilters(g, f) ==
    /\ ~(f.price_max # None /\ g.price_cents > f.price_max)
    /\ ~(f.price_min # None /\ g.price_cents < f.price_min)
    /\ ~(f.genres # {} /\ ~(\E x \in f.genres : x \in g.genres))

\* _mock_bm25_search / _mock_semantic_search: the games with a positive
\* score, best first; score[id] is the score after the random factor
MockSearch(hit, score) ==
    LET games == SeqFilter(Games, {g \in Range(Games) : hit[g.appid]})
    IN  StableSortDesc(games, [g \in Range(games) |-> score[g.appid]])

RECURSIVE FusionLoop(_, _, _, _, _)
\* for game_id in all_game_ids: ... fusion_results.append(search_result)
FusionLoop(all_game_ids, bm25_ids, semantic_ids, bm25_scores, semantic_scores) ==
    IF all_game_ids = <<>> THEN <<>>
    ELSE
      LET game_id == Head(all_game_ids)
          bm25_score == IF game_id \in bm25_ids THEN bm25_scores[game_id] ELSE 0
          semantic_score == IF game_id \in semantic_ids THEN semantic_scores[game_id] ELSE 0
          fusion_score == bm25_score * FUSION_BM25_WEIGHT
                            + semantic_score * FUSION_SEMANTIC_WEIGHT
          rest == FusionLoop(Tail(all_game_ids), bm25_ids, semantic_ids,
                             bm25_scores, semantic_scores)
      IN  IF fusion_score > 0
          THEN <<[game_id |-> game_id,
                  score |-> fusion_score + CalculateQualityBonus(GameById(game_id)),
                  rank |-> 0, search_type |-> "fusion"]>> \o rest
          ELSE rest

\* SearchService._apply_fusion_ranking; set_order is the order in which
\* Python iterates the set all_game_ids
ApplyFusionRanking(bm25_results, semantic_results, bm25_scores, semantic_scores, set_order) ==
    LET bm25_ids == {bm25_results[i].appid : i \in 1..Len(bm25_results)}
        semantic_ids == {semantic_results[i].appid : i \in 1..Len(semantic_results)}
        all_game_ids == SeqFilter(set_order, bm25_ids \cup semantic_ids)
        fusion_results == FusionLoop(all_game_ids, bm25_ids, semantic_ids,
                                     bm25_scores, semantic_scores)
        sorted == StableSortDesc(fusion_results,
                                 [x \in Range(fusion_results) |-> x.score])
    IN  [i \in 1..Len(sorted) |-> [sorted[i] EXCEPT !.rank = i]]

\* SearchService._apply_filters
ApplyFilters(results, f) ==
    SeqFilter(results, {x \in Range(results) : MatchesFilters(GameById(x.game_id), f)})

\* clean_search_query
CleanSearchQuery(q) == Strip(q)

\* SearchService.search_games of core/search/service.py ("if filters:" is
\* false for None and for the empty dict)
LegacySearchGamesResult(q, f, limit, e) ==
    IF CleanSearchQuery(q) = ""
    THEN <<>>
    ELSE IF e.fault = "db"
    THEN <<>>                    \* get_all_games failed: [] from the repository
                                 \* or from the except branch
    ELSE
      LET bm25_results == MockSearch([id \in GameIds |-> GameById(id).lex], e.bm25)
          semantic_results == MockSearch([id \in GameIds |-> GameById(id).sem], e.sem)
          fused_results == ApplyFusionRanking(bm25_results, semantic_results,
                                              e.bm25, e.sem, e.set_order)
          filtered == IF f # NoFilters THEN ApplyFilters(fused_results, f)
                      ELSE fused_results
      IN  Slice(filtered, 0, limit)

-----------------------------------------------------------------------------
(* backend-INST326-steam-search: app/core/engine.py *)

\* validate_search_query(query)['is_valid'] for a query without malicious
\* patterns: "if not query" rejects the empty string only
IsValidQuery(q) == q # ""

\* sanitize_input: ' '.join(text.split())
SanitizeInput(q) == Strip(q)

\* total_count = len(search_results); search_results[offset:offset + limit]
EnginePage(search_results, offset, limit) ==
    [raised |-> FALSE,
     results |-> Slice(search_results, offset, offset + limit),
     total |-> Len(search_results)]

\* GameSearchEngine.search_games past the "if not self.initialized" guard
EngineSearchGamesResult(q, f, limit, offset, e) ==
    IF ~IsValidQuery(q)
    THEN [raised |-> FALSE, results |-> <<>>, total |-> 0]
    ELSE EnginePage(LegacySearchGamesResult(SanitizeInput(q), f, limit * 2, e),
                    offset, limit)

\* raise RuntimeError("GameSearchEngine not initialized")
NotInitialized == [raised |-> TRUE, error |-> "RuntimeError"]

\* GameSearchEngine.search_games
EngineSearchGamesCall(initialized, q, f, limit, offset, e) ==
    IF ~initialized THEN NotInitialized
    ELSE EngineSearchGamesResult(q, f, limit, offset, e)

\* how often search_games reaches self.search_service.search_games(...)
EngineSearchCalls(initialized, q) ==
    IF initialized /\ IsValidQuery(q) THEN 1 ELSE 0

\* self.initialized after initialize(): unchanged when already set, set
\* when every component came up, left False when one of them raised
InitializedAfterInitialize(initialized, fault) ==
    IF initialized THEN TRUE ELSE fault = "none"

InitializedAfterShutdown_KeepFlag(initialized) == initialized

\* self.initialized after shutdown()
InitializedAfterShutdown(initialized) ==
    IF ~initialized THEN initialized ELSE FALSE

\* ready and stopped are history fields.  ready: an initialize() call has
\* completed without raising and no shutdown() call was made since.
\* stopped: the latest life-cycle call that took effect was a shutdown()
NoEngine == [initialized |-> FALSE, ready |-> FALSE, stopped |-> FALSE]

-----------------------------------------------------------------------------
(* backend-INST326-steam-search: app/api/routes/search.py, POST            *)
(* /search/games.  SearchResult.score is in tenths; relevance_score and    *)
(* semantic_score (score / 10.0) are in hundredths, bm25_score in tenths.  *)

ScoreOne == 100                 \* 1.0 in hundredths

\* SearchQuerySchema: min_length=1 and the validator reject a query that is
\* empty or blank
QuerySchemaAccepts(q) == q # "" /\ Strip(q) # ""

\* game_result = {...}: the score fields of the dict built for one result
GameResultOf(x) ==
    [game_id |-> x.game_id,
     relevance_score |-> Min(x.score, ScoreOne),
     bm25_score |-> IF x.search_type \in {"bm25", "fusion"} THEN x.score ELSE 0,
     semantic_score |-> IF x.search_type \in {"semantic", "fusion"}
                        THEN Min(x.score, ScoreOne) ELSE 0]

\* formatted_results
FormattedResults(results) ==
    SeqMap(results, [x \in Range(results) |-> GameResultOf(x)])

\* GameResult: relevance_score ge=0 le=1, bm25_score ge=0, semantic_score
\* ge=0 le=1
GameResultValid(r) ==
    /\ 0 <= r.relevance_score /\ r.relevance_score <= ScoreOne
    /\ 0 <= r.bm25_score
    /\ 0 <= r.semantic_score /\ r.semantic_score <= ScoreOne

\* GameResultSchema(results=formatted_results, ...): a result that fails
\* validation raises, and "except Exception" answers 500
LegacyResponse(formatted, total, offset, limit) ==
    IF \A i \in 1..Len(formatted) : GameResultValid(formatted[i])
    THEN [status |-> 200,
          body |-> [results |-> formatted, total |-> total,
                    offset |-> offset, limit |-> limit]]
    ELSE [status |-> 500]

\* search_games of routes/search.py, given what the engine returned
LegacyEndpoint(initialized, call, offset, limit) ==
    IF ~initialized THEN [status |-> 503]
    ELSE IF call.raised THEN [status |-> 500]
    ELSE LegacyResponse(FormattedResults(call.results), call.total, offset, limit)

\* what the handler built before it answered
LegacyBuilt(initialized, call) ==
    IF ~initialized \/ call.raised
    THEN [raised |-> TRUE, error |-> "HTTPException"]
    ELSE [raised |-> FALSE, results |-> call.results, total |-> call.total,
          formatted |-> FormattedResults(call.results)]

-----------------------------------------------------------------------------
(* backend-INST326-steam-search: search_algorithms.py, the linear fusion.  *)
(* A result list is a sequence of [game_id, score]; a normalized score is  *)
(* num / den with one den per list, a fusion score is num over             *)
(* AlphaDen * (den of the BM25 list) * (den of the Faiss list).            *)

ScoreSet(results) == {results[i].score : i \in 1..Len(results)}

SetMax(S) == CHOOSE x \in S : \A y \in S : y <= x

SetMin(S) == CHOOSE x \in S : \A y \in S : x <= y

\* score_range = max_score - min_score if max_score != min_score else 1.0
ScoreRange(results) ==
    IF results = <<>> THEN 1
    ELSE IF SetMax(ScoreSet(results)) # SetMin(ScoreSet(results))
         THEN SetMax(ScoreSet(results)) - SetMin(ScoreSet(results))
         ELSE 1

\* apply_fusion_ranking.normalize_scores: the numerators (score - min_score)
\* over ScoreRange(results), as a dict in insertion order
NormalizeScores(results) ==
    IF results = <<>> THEN <<>>
    ELSE [i \in 1..Len(results) |->
             [game_id |-> results[i].game_id,
              num |-> results[i].score - SetMin(ScoreSet(results))]]

\* normalized.get(game_id, 0.0)
NormalizedGet(normalized, id) ==
    IF \E i \in 1..Len(normalized) : normalized[i].game_id = id
    THEN normalized[CHOOSE i \in 1..Len(normalized) : normalized[i].game_id = id].num
    ELSE 0

\* CombineScores with the two weights exchanged
CombineScores_SwappedWeights(bm25_normalized, bm25_den, faiss_normalized, faiss_den, bm25_weight, faiss_weight, set_order) ==
    LET ids == {bm25_normalized[i].game_id : i \in 1..Len(bm25_normalized)}
                 \cup {faiss_normalized[i].game_id : i \in 1..Len(faiss_normalized)}
        all_game_ids == SeqFilter(set_order, ids)
    IN  StableSortDesc(
            [i \in 1..Len(all_game_ids) |->
                [game_id |-> all_game_ids[i],
                 score |-> faiss_weight * NormalizedGet(bm25_normalized, all_game_ids[i]) * faiss_den
                           + bm25_weight * NormalizedGet(faiss_normalized, all_game_ids[i]) * bm25_den]],
            [x \in {[game_id |-> id,
                      score |-> faiss_weight * NormalizedGet(bm25_normalized, id) * faiss_den
                                + bm25_weight * NormalizedGet(faiss_normalized, id) * bm25_den]
                     : id \in ids} |-> x.score])

\* combined_scores in the iteration order of the set all_game_ids, then
\* sorted(combined_scores.items(), key=lambda x: x[1], reverse=True)
CombineScores(bm25_normalized, bm25_den, faiss_normalized, faiss_den, bm25_weight, faiss_weight, set_order) ==
    LET ids == {bm25_normalized[i].game_id : i \in 1..Len(bm25_normalized)}
                 \cup {faiss_normalized[i].game_id : i \in 1..Len(faiss_normalized)}
        all_game_ids == SeqFilter(set_order, ids)
    IN  StableSortDesc(
            [i \in 1..Len(all_game_ids) |->
                [game_id |-> all_game_ids[i],
                 score |-> bm25_weight * NormalizedGet(bm25_normalized, all_game_ids[i]) * faiss_den
                           + faiss_weight * NormalizedGet(faiss_normalized, all_game_ids[i]) * bm25_den]],
            [x \in {[game_id |-> id,
                      score |-> bm25_weight * NormalizedGet(bm25_normalized, id) * faiss_den
                                + faiss_weight * NormalizedGet(faiss_normalized, id) * bm25_den]
                     : id \in ids} |-> x.score])

\* apply_fusion_ranking(bm25_results, faiss_results, bm25_weight, faiss_weight)
LinearFusionRanking(bm25_results, faiss_results, bm25_weight, faiss_weight, set_order) ==
    [raised |-> FALSE,
     bm25_normalized |-> NormalizeScores(bm25_results),
     bm25_den |-> ScoreRange(bm25_results),
     faiss_normalized |-> NormalizeScores(faiss_results),
     faiss_den |-> ScoreRange(faiss_results),
     results |-> CombineScores(NormalizeScores(bm25_results), ScoreRange(bm25_results),
                               NormalizeScores(faiss_results), ScoreRange(faiss_results),
                               bm25_weight, faiss_weight, set_order)]

-----------------------------------------------------------------------------
(* State before any request *)

NoReq == [query |-> "", filters |-> NoFilters, sort_by |-> "relevance",
          offset |-> 0, limit |-> 1, alpha |-> 0]
NoEnv == [fault |-> "none", bm25 |-> [id \in GameIds |-> 0]]
NoSvc == [raised |-> FALSE]
NoHttp == [status |-> 0]

-----------------------------------------------------------------------------
(* EmbeddingService (services/embedding_service.py) and the semantic pass   *)
(* of hybrid_search, step by step.  Several requests can be in flight; the  *)
(* class attributes _model and the encode_query cache are shared.           *)

\* the requests that can be in flight together
Callers == {1, 2}

\* the query strings the in-flight requests carry
EmbedQueries == {"", "dota", "portal"}

NoVector == [kind |-> "none", text |-> ""]

\* [0.0] * dimension
ZeroVector == [kind |-> "zero", text |-> ""]

\* model.encode(query).tolist(): a vector that depends on the query only
ModelEncode(q) == [kind |-> "encoded", text |-> q]

\* the body of encode_query: the value it returns for a query
EncodeQueryValue(q) == IF Strip(q) = "" THEN ZeroVector ELSE ModelEncode(q)

\* The cache that @lru_cache(maxsize=...) keeps for encode_query: entries
\* [key, value], least recently used first.
CacheKeys(cache) == {cache[i].key : i \in 1..Len(cache)}

CacheIndex(cache, key) == CHOOSE i \in 1..Len(cache) : cache[i].key = key

CacheGet(cache, key) == cache[CacheIndex(cache, key)].value

RemoveAt(s, i) == SubSeq(s, 1, i - 1) \o SubSeq(s, i + 1, Len(s))

\* the wrapper's test for a hit
LruHit_Never(cache, key) == FALSE

LruHit(cache, key) == key \in CacheKeys(cache)

\* a hit makes the entry the most recently used one
LruTouch(cache, i) == Append(RemoveAt(cache, i), cache[i])

LruStore_AlwaysAppend(cache, key, value) ==
    Append(cache, [key |-> key, value |-> value])

LruStore_NoEvict(cache, key, value) ==
    IF key \in CacheKeys(cache) THEN cache
    ELSE Append(cache, [key |-> key, value |-> value])

\* after the wrapped function returned: the key may have been stored by
\* another call meanwhile (then the cache is left as it is); a full cache
\* drops its least recently used entry
LruStore(cache, key, value) ==
    IF key \in CacheKeys(cache) THEN cache
    ELSE IF Len(cache) >= CacheMaxSize
         THEN Append(Tail(cache), [key |-> key, value |-> value])
         ELSE Append(cache, [key |-> key, value |-> value])

\* hits and misses are the counters that cache_info() reports
NoEmbedding == [model |-> "none", cache |-> <<>>, hits |-> 0, misses |-> 0]

\* computed: how many times the body of encode_query ran for this call
NoCall == [pc |-> "idle", query |-> "", result |-> NoVector, computed |-> 0]

\* EmbeddingService.get_cache_info(): encode_query.cache_info()
GetCacheInfo(e) ==
    [hits |-> e.hits, misses |-> e.misses,
     maxsize |-> CacheMaxSize, currsize |-> Len(e.cache)]

-----------------------------------------------------------------------------
(* PersistenceService (backend/app/services/persistence_service.py).  The   *)
(* values a caller hands over are Python values; what is in a file is a     *)
(* JSON document; json.dump and json.load convert between the two.          *)

PyStr(s) == [type |-> "str", s |-> s, n |-> 0]
PyInt(n) == [type |-> "int", s |-> "", n |-> n]
PyList(items) == [type |-> "list", items |-> items]

JsonString(s) == [kind |-> "string", s |-> s, n |-> 0]
JsonNumber(n) == [kind |-> "number", s |-> "", n |-> n]
JsonObject(members) == [kind |-> "object", members |-> members, items |-> <<>>]
JsonArray(items) == [kind |-> "array", members |-> <<>>, items |-> items]

\* the entries of a search history: query, timestamp, results_count
HistoryEntries ==
    {[query |-> PyStr(q), timestamp |-> PyStr("2025-12-14T22:00:00"),
      results_count |-> PyInt(c)] : q \in {"adventure", "action"}, c \in {0, 86}}

Histories == {PyList(l) : l \in UNION {[1..k -> HistoryEntries] : k \in 0..MaxHistoryLen}}

\* the preferences dicts saved
Preferences == {[default_sort |-> PyStr(x)] : x \in {"relevance", "price_asc"}}

\* json.dump of a str or an int
DumpScalar(v) == IF v.type = "str" THEN JsonString(v.s) ELSE JsonNumber(v.n)

\* json.dump of a dict with string keys and scalar values
DumpDict(d) == JsonObject([k \in DOMAIN d |-> DumpScalar(d[k])])

\* json.dump of a list of such dicts
DumpList(l) == JsonArray([i \in 1..Len(l.items) |-> DumpDict(l.items[i])])

\* json.load of a string or a number
LoadScalar(j) == IF j.kind = "string" THEN PyStr(j.s) ELSE PyInt(j.n)

\* json.load of an object
LoadObject(j) == [k \in DOMAIN j.members |-> LoadScalar(j.members[k])]

\* json.load of an array of objects
LoadArray(j) == PyList([i \in 1..Len(j.items) |-> LoadObject(j.items[i])])

\* a file: absent, a JSON document, or text that is no JSON document
NoDoc == JsonArray(<<>>)
AbsentFile == [state |-> "absent", doc |-> NoDoc]
CorruptFile == [state |-> "corrupt", doc |-> NoDoc]

WriteFile_Append(old, doc) ==
    IF old.state = "absent" THEN [state |-> "json", doc |-> doc] ELSE CorruptFile

\* with open(file_path, 'w') ... json.dump(...): the file holds the new
\* document only
WriteFile(old, doc) == [state |-> "json", doc |-> doc]

\* the file after save_search_history / save_user_preferences: open() may
\* fail (the file is untouched), the write may fail after open() emptied it
SavedFile(old, doc, fault) ==
    IF fault = "open" THEN old
    ELSE IF fault = "write" THEN CorruptFile
    ELSE WriteFile(old, doc)

\* what load_search_history returns for the file
LoadSearchHistoryResult(file, fault) ==
    IF file.state = "absent" THEN PyList(<<>>)
    ELSE IF fault = "io" THEN PyList(<<>>)
    ELSE IF file.state = "corrupt" THEN PyList(<<>>)
    ELSE IF file.doc.kind # "array" THEN PyList(<<>>)
    ELSE LoadArray(file.doc)

\* last_save is a history field: the outcome and the argument of the most
\* recent save_search_history call
-----------------------------------------------------------------------------
(* SecurityManager.check_rate_limit and cleanup_expired_cache               *)
(* (backend-INST326-steam-search/app/core/security/manager.py).  The        *)
(* statistics counters of the manager are not part of the model.  Every     *)
(* key has a record of its own in rate_limit_cache; one key is followed.    *)

ClientIps == {"10.0.0.1"}
Endpoints == {"search"}

\* cache_key = f"{client_ip}:{endpoint}"
RateKeys == ClientIps \X Endpoints

\* a key that is not in rate_limit_cache
NoRateData == [present |-> FALSE, requests |-> <<>>, blocked_until |-> 0]

\* the record created on the first call for a key
NewRateData == [present |-> TRUE, requests |-> <<>>, blocked_until |-> 0]

NoSecurity == [rate_limit_cache |-> [k \in RateKeys |-> NoRateData], blocked_ips |-> {}]

\* [req_time for req_time in requests if req_time > current_time - 60]
RecentRequests(requests, current_time) ==
    LET Recent(req_time) == req_time > current_time - RateWindow
    IN  SelectSeq(requests, Recent)

ExceedsLimit_OffByOne(n) == n > MaxRequestsPerMinute

\* len(rate_data['requests']) >= self.max_requests_per_minute
ExceedsLimit(n) == n >= MaxRequestsPerMinute

\* check_rate_limit from "rate_data = ..." on: the value returned and the
\* record left in the cache
CheckRateData(rate_data, current_time, recent) ==
    IF current_time < rate_data.blocked_until
    THEN [allowed |-> FALSE, rate_data |-> rate_data]
    ELSE IF ExceedsLimit(Len(recent))
    THEN [allowed |-> FALSE,
          rate_data |-> [rate_data EXCEPT !.requests = recent,
                                          !.blocked_until = current_time + BlockSeconds]]
    ELSE [allowed |-> TRUE,
          rate_data |-> [rate_data EXCEPT !.requests = Append(recent, current_time)]]

\* check_rate_limit(client_ip, endpoint) at current_time
CheckRateLimitResult(sec, client_ip, endpoint, current_time) ==
    IF client_ip \in sec.blocked_ips
    THEN [allowed |-> FALSE, rate_data |-> sec.rate_limit_cache[<<client_ip, endpoint>>]]
    ELSE IF sec.rate_limit_cache[<<client_ip, endpoint>>].present
    THEN CheckRateData(sec.rate_limit_cache[<<client_ip, endpoint>>], current_time,
                       RecentRequests(sec.rate_limit_cache[<<client_ip, endpoint>>].requests,
                                      current_time))
    ELSE CheckRateData(NewRateData, current_time, <<>>)

\* cleanup_expired_cache for one entry: old requests go; the entry goes
\* when nothing recent is left and no block is running
CleanedRateData(rate_data, current_time, recent) ==
    IF ~rate_data.present THEN rate_data
    ELSE IF recent = <<>> /\ current_time >= rate_data.blocked_until
    THEN NoRateData
    ELSE [rate_data EXCEPT !.requests = recent]

NoFiles ==
    [search_history |-> AbsentFile, user_preferences |-> AbsentFile,
     last_save |-> [ok |-> FALSE, searches |-> PyList(<<>>)]]

Init ==
    /\ phase = "idle"
    /\ op = "none"
    /\ req = NoReq
    /\ env = NoEnv
    /\ svc = NoSvc
    /\ http = NoHttp
    /\ embedding = NoEmbedding
    /\ inflight = [r \in Callers |-> NoCall]
    /\ files = NoFiles
    /\ security = NoSecurity
    /\ clock = 0
    /\ granted = [k \in RateKeys |-> <<>>]
    /\ engine = NoEngine

\* The caller takes the response; the service keeps no per-request state.
Deliver ==
    /\ phase = "responded"
    /\ phase' = "idle"
    /\ op' = "none"
    /\ req' = NoReq
    /\ env' = NoEnv
    /\ svc' = NoSvc
    /\ http' = NoHttp
    /\ UNCHANGED <<embedding, inflight, files, security, clock, granted, engine>>

-----------------------------------------------------------------------------
(* What the collaborators can do during one request *)

Faults == {"none", "embed", "rpc_error", "rpc_missing", "rpc_missing_py_fail",
           "rpc_missing_db_down", "db"}

\* scores BM25Okapi may return: a row that does not contain the query text
\* is never fetched, so only the others get a score
Bm25Outcomes(q) ==
    IF Tokenize(q) = <<>>
    THEN {[id \in GameIds |-> 0]}
    ELSE {b \in [GameIds -> 0..MaxScore] : \A id \in GameIds : ~GameById(id).ilike => b[id] = 0}

Requests ==
    [query : Queries, filters : FilterChoices, sort_by : SortBys,
     offset : 0..MaxOffset, limit : 1..MaxLimit, alpha : {0}]

Respond(name, r, e, result) ==
    /\ phase' = "responded"
    /\ op' = name
    /\ req' = r
    /\ env' = e
    /\ svc' = result
    /\ http' = Endpoint(result)
    /\ UNCHANGED <<embedding, inflight, files, security, clock, granted, engine>>

\* POST /search/games -> search_games -> SearchService.search
SearchGames ==
    /\ phase = "idle"
    /\ \E r \in Requests, fault \in {"none", "db"} :
         \E b \in Bm25Outcomes(r.query) :
           LET e == [fault |-> fault, bm25 |-> b]
           IN  Respond("search", r, e,
                       Search(r.query, r.filters, r.sort_by, r.offset, r.limit, e))

\* POST /search/semantic -> semantic_search_endpoint -> SearchService.semantic_search
SemanticSearchEndpoint ==
    /\ phase = "idle"
    /\ \E r \in Requests, fault \in Faults :
         \E b \in Bm25Outcomes(r.query) :
           LET e == [fault |-> fault, bm25 |-> b]
           IN  /\ r.sort_by = "relevance"
               \* the similarities of the catalog are those of the query "dota"
               /\ Strip(r.query) # ""
               \* BM25Okapi only runs in the BM25 fallback of the Python path
               /\ fault # "rpc_missing_py_fail" => b = [id \in GameIds |-> 0]
               /\ Respond("semantic", r, e,
                          SemanticSearch(r.query, r.filters, r.limit, r.offset, e))

\* POST /search/hybrid -> hybrid_search_endpoint -> SearchService.hybrid_search
HybridSearchEndpoint ==
    /\ phase = "idle"
    /\ \E r \in Requests, alphaNum \in 0..AlphaDen, fault \in Faults :
         \E b \in Bm25Outcomes(r.query) :
           LET e == [fault |-> fault, bm25 |-> b]
               ra == [r EXCEPT !.alpha = alphaNum]
           IN  \* a request handed over to search() meets no semantic fault
               /\ (r.sort_by # "relevance" \/ Strip(r.query) = "") => fault \in {"none", "db"}
               /\ Respond("hybrid", ra, e,
                           HybridSearch(ra.query, ra.filters, ra.sort_by, ra.limit,
                                        ra.offset, alphaNum, e))

LegacyFilterChoices ==
    { NoFilters,
      [NoFilters EXCEPT !.price_max = 0],
      [NoFilters EXCEPT !.price_min = 1],
      [NoFilters EXCEPT !.genres = {"Strategy"}],
      [NoFilters EXCEPT !.genres = {"Action", "Strategy"}] }

\* orders in which a Python set of the catalog's ids can be iterated: the
\* rotations of the ascending order and of the descending order
SetOrders ==
    LET n == Len(Games)
    IN  {[i \in 1..n |-> ((i + k - 1) % n) + 1] : k \in 0..(n - 1)}
        \cup {[i \in 1..n |-> n - ((i + k - 1) % n)] : k \in 0..(n - 1)}

\* scores of the mock scorers after the random factor: positive for a hit
MockScores(field) ==
    {b \in [GameIds -> 0..MaxScore] :
        \A id \in GameIds : (b[id] = 0) <=> ~GameById(id)[field]}

MinMockScores(field) == [id \in GameIds |-> IF GameById(id)[field] THEN 1 ELSE 0]

\* SearchService.search_games (core/search/service.py)
LegacySearchGames ==
    /\ phase = "idle"
    /\ \E q \in Queries, f \in LegacyFilterChoices, limit \in 1..MaxLimit,
          b \in MockScores("lex"), sm \in MockScores("sem"), so \in SetOrders :
         \* a blank query returns before any scorer runs
         /\ CleanSearchQuery(q) = "" =>
                b = MinMockScores("lex") /\ sm = MinMockScores("sem") /\ so = [i \in 1..Len(Games) |-> Games[i].appid]
         /\ LET e == [fault |-> "none", bm25 |-> b, sem |-> sm, set_order |-> so]
                r == [NoReq EXCEPT !.query = q, !.filters = f, !.limit = limit]
            IN  /\ phase' = "responded"
                /\ op' = "legacy"
                /\ req' = r
                /\ env' = e
                /\ svc' = [raised |-> FALSE, results |-> LegacySearchGamesResult(q, f, limit, e)]
                /\ http' = NoHttp
                /\ UNCHANGED <<embedding, inflight, files, security, clock, granted, engine>>

\* GameSearchEngine.search_games(query, filters, limit, offset); the page
\* does not depend on how the hits are scored, so the semantic scores and
\* the set order are fixed
EngineSearchGames ==
    /\ phase = "idle"
    /\ \E q \in Queries, f \in LegacyFilterChoices, limit \in 1..MaxLimit,
          offset \in 0..MaxOffset, fault \in {"none", "db"}, b \in MockScores("lex") :
         /\ (CleanSearchQuery(q) = "" \/ fault = "db" \/ ~engine.initialized)
               => b = MinMockScores("lex")
         /\ ~engine.initialized => fault = "none"
         /\ LET e == [fault |-> fault, bm25 |-> b, sem |-> MinMockScores("sem"),
                      set_order |-> [i \in 1..Len(Games) |-> Games[i].appid],
                      search_calls |-> EngineSearchCalls(engine.initialized, q)]
                r == [NoReq EXCEPT !.query = q, !.filters = f, !.limit = limit,
                                   !.offset = offset]
            IN  /\ phase' = "responded"
                /\ op' = "engine"
                /\ req' = r
                /\ env' = e
                /\ svc' = EngineSearchGamesCall(engine.initialized, q, f, limit, offset, e)
                /\ http' = NoHttp
                /\ UNCHANGED <<embedding, inflight, files, security, clock, granted, engine>>

\* POST /search/games of routes/search.py; a query the request schema
\* rejects never reaches the handler
LegacySearchEndpoint ==
    /\ phase = "idle"
    /\ \E q \in {x \in Queries : QuerySchemaAccepts(x)}, f \in LegacyFilterChoices,
          limit \in 1..MaxLimit, offset \in 0..MaxOffset,
          b \in MockScores("lex"), sm \in MockScores("sem") :
         /\ ~engine.initialized => b = MinMockScores("lex") /\ sm = MinMockScores("sem")
         /\ LET e == [fault |-> "none", bm25 |-> b, sem |-> sm,
                      set_order |-> [i \in 1..Len(Games) |-> Games[i].appid],
                      search_calls |-> EngineSearchCalls(engine.initialized, q)]
                r == [NoReq EXCEPT !.query = q, !.filters = f, !.limit = limit,
                                   !.offset = offset]
                call == EngineSearchGamesCall(engine.initialized, q, f, limit, offset, e)
            IN  /\ phase' = "responded"
                /\ op' = "legacy_endpoint"
                /\ req' = r
                /\ env' = e
                /\ svc' = LegacyBuilt(engine.initialized, call)
                /\ http' = LegacyEndpoint(engine.initialized, call, offset, limit)
                /\ UNCHANGED <<embedding, inflight, files, security, clock, granted, engine>>

\* GameSearchEngine.initialize(); fault "component" is a component that
\* raises while it is set up
EngineInitialize ==
    /\ phase = "idle"
    /\ \E fault \in {"none", "component"} :
         /\ phase' = "responded"
         /\ op' = "initialize"
         /\ req' = NoReq
         /\ env' = [fault |-> fault]
         /\ svc' = [raised |-> ~InitializedAfterInitialize(engine.initialized, fault)]
         /\ http' = NoHttp
         /\ engine' = [initialized |-> InitializedAfterInitialize(engine.initialized, fault),
                       ready |-> engine.ready \/ engine.initialized \/ fault = "none",
                       stopped |-> engine.stopped /\ fault # "none"]
    /\ UNCHANGED <<embedding, inflight, files, security, clock, granted>>

\* GameSearchEngine.shutdown()
EngineShutdown ==
    /\ phase = "idle"
    /\ phase' = "responded"
    /\ op' = "shutdown"
    /\ req' = NoReq
    /\ env' = [fault |-> "none"]
    /\ svc' = [raised |-> FALSE]
    /\ http' = NoHttp
    /\ engine' = [initialized |-> InitializedAfterShutdown(engine.initialized),
                  ready |-> FALSE,
                  stopped |-> TRUE]
    /\ UNCHANGED <<embedding, inflight, files, security, clock, granted>>

\* lists of at most n result dicts for catalog games, repetitions included
ItemLists(n, item) ==
    UNION {[1..k -> {item[id] : id \in GameIds}] : k \in 0..n}

\* a direct call SearchService._reciprocal_rank_fusion(bm25_results,
\* semantic_results, alpha) on arbitrary lists
FuseLists ==
    /\ phase = "idle"
    /\ \E bm25_results \in ItemLists(MaxListLen, [id \in GameIds |-> LexItem(GameById(id), 0)]),
          semantic_results \in ItemLists(MaxListLen, [id \in GameIds |-> SemItem(GameById(id))]),
          alphaNum \in 0..AlphaDen :
         /\ phase' = "responded"
         /\ op' = "fuse"
         /\ req' = [NoReq EXCEPT !.alpha = alphaNum]
         /\ env' = [fault |-> "none", bm25_results |-> bm25_results,
                    semantic_results |-> semantic_results]
         /\ svc' = [raised |-> FALSE,
                    results |-> ReciprocalRankFusion(bm25_results, semantic_results, alphaNum)]
         /\ http' = NoHttp
         /\ UNCHANGED <<embedding, inflight, files, security, clock, granted, engine>>

\* the ids the two indexes of the linear fusion can return
LinearIds == {1, 2, 3}

\* result lists of search_bm25_index / search_faiss_index: some of the ids,
\* each once, with a score
ScoredLists ==
    UNION {{SeqMap(SeqFilter(<<1, 2, 3>>, S),
                   [id \in S |-> [game_id |-> id, score |-> sc[id]]])
            : sc \in [S -> 0..MaxScore]} : S \in SUBSET LinearIds}

\* two of the orders in which Python can iterate the set all_game_ids
LinearSetOrders == {<<1, 2, 3>>, <<3, 2, 1>>}

\* a call apply_fusion_ranking(bm25_results, faiss_results, alpha, 1 - alpha)
ApplyFusionRankingCall ==
    /\ phase = "idle"
    /\ \E bm25_results \in ScoredLists, faiss_results \in ScoredLists,
          alphaNum \in 0..AlphaDen, so \in LinearSetOrders :
         /\ phase' = "responded"
         /\ op' = "linear"
         /\ req' = [NoReq EXCEPT !.alpha = alphaNum]
         /\ env' = [fault |-> "none", bm25_results |-> bm25_results,
                    faiss_results |-> faiss_results,
                    set_order |-> so]
         /\ svc' = LinearFusionRanking(bm25_results, faiss_results,
                                       alphaNum, AlphaDen - alphaNum, so)
         /\ http' = NoHttp
         /\ UNCHANGED <<embedding, inflight, files, security, clock, granted, engine>>

-----------------------------------------------------------------------------
(* The semantic pass of one in-flight request *)

At(r, pc) == inflight[r].pc = pc

Goto(r, pc) == inflight' = [inflight EXCEPT ![r].pc = pc]

\* hybrid_search reaches "await self.semantic_search(...)", which calls
\* EmbeddingService.encode_query(query)
CallSemanticSearch(r) ==
    /\ At(r, "idle")
    /\ embedding.hits + embedding.misses
         + Cardinality({c \in Callers : At(c, "lookup")}) < MaxCalls
    /\ \E q \in EmbedQueries :
         inflight' = [inflight EXCEPT ![r] = [NoCall EXCEPT !.pc = "lookup",
                                                           !.query = q]]
    /\ UNCHANGED <<files, security, clock, granted, engine, phase, op, req, env, svc, http, embedding>>

\* lru_cache wrapper, before the call: look the key up
CacheLookup(r) ==
    /\ At(r, "lookup")
    /\ LET cache == embedding.cache
           q == inflight[r].query
       IN  IF LruHit(cache, q)
           THEN /\ inflight' = [inflight EXCEPT ![r].pc = "rpc",
                                                ![r].result = CacheGet(cache, q)]
                /\ embedding' = [embedding EXCEPT
                                   !.cache = LruTouch(cache, CacheIndex(cache, q)),
                                   !.hits = @ + 1]
           ELSE /\ Goto(r, "compute")
                /\ embedding' = [embedding EXCEPT !.misses = @ + 1]
    /\ UNCHANGED <<files, security, clock, granted, engine, phase, op, req, env, svc, http>>

\* encode_query, blank query: the zero vector, no model needed
EncodeBlank(r) ==
    /\ At(r, "compute")
    /\ Strip(inflight[r].query) = ""
    /\ inflight' = [inflight EXCEPT ![r].pc = "store", ![r].result = ZeroVector,
                                    ![r].computed = @ + 1]
    /\ UNCHANGED <<files, security, clock, granted, engine, phase, op, req, env, svc, http, embedding>>

\* get_model: "if cls._model is None" decides whether the model is loaded
GetModel(r) ==
    /\ At(r, "compute")
    /\ Strip(inflight[r].query) # ""
    /\ inflight' = [inflight EXCEPT
                       ![r].pc = IF embedding.model = "none" THEN "load" ELSE "encode",
                       ![r].computed = @ + 1]
    /\ UNCHANGED <<files, security, clock, granted, engine, phase, op, req, env, svc, http, embedding>>

\* SentenceTransformer(name) returns: cls._model is assigned
LoadModelReturns(r) ==
    /\ At(r, "load")
    /\ embedding' = [embedding EXCEPT !.model = "loaded"]
    /\ Goto(r, "encode")
    /\ UNCHANGED <<files, security, clock, granted, engine, phase, op, req, env, svc, http>>

\* SentenceTransformer(name) raises: get_model re-raises, encode_query and
\* semantic_search with it, and hybrid_search catches
LoadModelRaises(r) ==
    /\ At(r, "load")
    /\ Goto(r, "fallback")
    /\ UNCHANGED <<files, security, clock, granted, engine, phase, op, req, env, svc, http, embedding>>

\* model.encode(query) returns
ModelEncodeReturns(r) ==
    /\ At(r, "encode")
    /\ inflight' = [inflight EXCEPT ![r].pc = "store",
                                    ![r].result = ModelEncode(inflight[r].query)]
    /\ UNCHANGED <<files, security, clock, granted, engine, phase, op, req, env, svc, http, embedding>>

\* model.encode(query) raises; nothing is cached
ModelEncodeRaises(r) ==
    /\ At(r, "encode")
    /\ Goto(r, "fallback")
    /\ UNCHANGED <<files, security, clock, granted, engine, phase, op, req, env, svc, http, embedding>>

\* lru_cache wrapper, after the call: store the result
CacheStore(r) ==
    /\ At(r, "store")
    /\ embedding' = [embedding EXCEPT
                       !.cache = LruStore(embedding.cache, inflight[r].query,
                                          inflight[r].result)]
    /\ Goto(r, "rpc")
    /\ UNCHANGED <<files, security, clock, granted, engine, phase, op, req, env, svc, http>>

\* the vector query rpc('search_games_semantic', params).execute() answers
\* (or the Python-side search that replaces a missing function does)
RpcReturns(r) ==
    /\ At(r, "rpc")
    /\ Goto(r, "fused")
    /\ UNCHANGED <<files, security, clock, granted, engine, phase, op, req, env, svc, http, embedding>>

\* the vector query raises: semantic_search re-raises, hybrid_search catches
RpcRaises(r) ==
    /\ At(r, "rpc")
    /\ Goto(r, "fallback")
    /\ UNCHANGED <<files, security, clock, granted, engine, phase, op, req, env, svc, http, embedding>>

\* hybrid_search returns its dict: fused, or lexical only after a failure
ReturnHybrid(r) ==
    /\ inflight[r].pc \in {"fused", "fallback"}
    /\ inflight' = [inflight EXCEPT ![r] = NoCall]
    /\ UNCHANGED <<files, security, clock, granted, engine, phase, op, req, env, svc, http, embedding>>

\* time passes between two calls
Tick ==
    /\ phase = "idle"
    /\ clock < MaxTime
    /\ clock' = clock + 1
    /\ UNCHANGED <<phase, op, req, env, svc, http, embedding, inflight, files,
                   security, granted, engine>>

\* SecurityManager.check_rate_limit(client_ip, endpoint)
CheckRateLimit ==
    /\ phase = "idle"
    /\ \E client_ip \in ClientIps, endpoint \in Endpoints :
         LET result == CheckRateLimitResult(security, client_ip, endpoint, clock)
         IN  /\ phase' = "responded"
             /\ op' = "check_rate_limit"
             /\ req' = NoReq
             /\ env' = [fault |-> "none", client_ip |-> client_ip, endpoint |-> endpoint]
             /\ svc' = [raised |-> FALSE, allowed |-> result.allowed]
             /\ http' = NoHttp
             /\ security' = [security EXCEPT
                               !.rate_limit_cache[<<client_ip, endpoint>>] = result.rate_data]
             /\ granted' = IF result.allowed
                           THEN [granted EXCEPT ![<<client_ip, endpoint>>] = Append(@, clock)]
                           ELSE granted
    /\ UNCHANGED <<embedding, inflight, files, clock, engine>>

\* SecurityManager.cleanup_expired_cache()
CleanupExpiredCache ==
    /\ phase = "idle"
    /\ security' = [security EXCEPT !.rate_limit_cache =
                       [k \in RateKeys |->
                          CleanedRateData(security.rate_limit_cache[k], clock,
                              RecentRequests(security.rate_limit_cache[k].requests, clock))]]
    /\ UNCHANGED <<phase, op, req, env, svc, http, embedding, inflight, files,
                   clock, granted, engine>>

\* SecurityManager.block_ip(ip_address)
BlockIp ==
    /\ phase = "idle"
    /\ \E ip_address \in ClientIps :
         security' = [security EXCEPT !.blocked_ips = @ \cup {ip_address}]
    /\ UNCHANGED <<phase, op, req, env, svc, http, embedding, inflight, files,
                   clock, granted, engine>>

\* SecurityManager.unblock_ip(ip_address)
UnblockIp ==
    /\ phase = "idle"
    /\ \E ip_address \in ClientIps :
         security' = [security EXCEPT !.blocked_ips = @ \ {ip_address}]
    /\ UNCHANGED <<phase, op, req, env, svc, http, embedding, inflight, files,
                   clock, granted, engine>>

\* PersistenceService.save_search_history(searches)
SaveSearchHistory ==
    /\ phase = "idle"
    /\ \E searches \in Histories, fault \in {"none", "open", "write"} :
         /\ phase' = "responded"
         /\ op' = "save_search_history"
         /\ req' = NoReq
         /\ env' = [fault |-> fault, searches |-> searches]
         /\ svc' = [raised |-> FALSE, result |-> fault = "none"]
         /\ http' = NoHttp
         /\ files' = [files EXCEPT
                        !.search_history = SavedFile(@, DumpList(searches), fault),
                        !.last_save = [ok |-> fault = "none", searches |-> searches]]
         /\ UNCHANGED <<embedding, inflight, security, clock, granted, engine>>

\* PersistenceService.load_search_history()
LoadSearchHistory ==
    /\ phase = "idle"
    /\ \E fault \in {"none", "io"} :
         /\ phase' = "responded"
         /\ op' = "load_search_history"
         /\ req' = NoReq
         /\ env' = [fault |-> fault]
         /\ svc' = [raised |-> FALSE,
                    searches |-> LoadSearchHistoryResult(files.search_history, fault)]
         /\ http' = NoHttp
         /\ UNCHANGED <<embedding, inflight, files, security, clock, granted, engine>>

\* PersistenceService.save_user_preferences(preferences): another file
SaveUserPreferences ==
    /\ phase = "idle"
    /\ \E preferences \in Preferences, fault \in {"none", "open"} :
         /\ phase' = "responded"
         /\ op' = "save_user_preferences"
         /\ req' = NoReq
         /\ env' = [fault |-> fault, preferences |-> preferences]
         /\ svc' = [raised |-> FALSE, result |-> fault = "none"]
         /\ http' = NoHttp
         /\ files' = [files EXCEPT
                        !.user_preferences = SavedFile(@, DumpDict(preferences), fault)]
         /\ UNCHANGED <<embedding, inflight, security, clock, granted, engine>>

\* the queries handed directly to the scorer: the request queries and a
\* punctuation-only one
ScoringQueries == Queries \cup {"!"}

\* the candidate lists handed directly to the scorer
CandidateLists == UNION {[1..k -> Range(Games)] : k \in 0..MaxListLen}

\* a direct call _calculate_bm25_scores_batch(games, query); bm25 is what
\* BM25Okapi gives for the rows when the code gets as far as asking it
CalculateBm25ScoresBatchCall ==
    /\ phase = "idle"
    /\ \E games \in CandidateLists, q \in ScoringQueries,
          b \in [GameIds -> 0..MaxScore] :
         /\ phase' = "responded"
         /\ op' = "bm25_batch"
         /\ req' = [NoReq EXCEPT !.query = q]
         /\ env' = [fault |-> "none", bm25 |-> b, games |-> games]
         /\ svc' = [raised |-> FALSE,
                    scores |-> Bm25ScoreList(games, Bm25ScoresBatch(games, q, b))]
         /\ http' = NoHttp
         /\ UNCHANGED <<embedding, inflight, files, security, clock, granted, engine>>

\* a direct call of one of the three tokenizers on a text
TokenizeCharsCall ==
    /\ phase = "idle"
    /\ \E text \in Texts :
         /\ phase' = "responded"
         /\ op' = "_tokenize"
         /\ req' = NoReq
         /\ env' = [fault |-> "none", text |-> text]
         /\ svc' = [raised |-> FALSE, tokens |-> TokenizeChars(text)]
         /\ http' = NoHttp
         /\ UNCHANGED <<embedding, inflight, files, security, clock, granted, engine>>

TokenizeTextBm25Call ==
    /\ phase = "idle"
    /\ \E text \in Texts :
         /\ phase' = "responded"
         /\ op' = "tokenize_text_bm25"
         /\ req' = NoReq
         /\ env' = [fault |-> "none", text |-> text]
         /\ svc' = [raised |-> FALSE, tokens |-> TokenizeTextBm25(text)]
         /\ http' = NoHttp
         /\ UNCHANGED <<embedding, inflight, files, security, clock, granted, engine>>

TokenizeTextCall ==
    /\ phase = "idle"
    /\ \E text \in Texts :
         /\ phase' = "responded"
         /\ op' = "tokenize_text"
         /\ req' = NoReq
         /\ env' = [fault |-> "none", text |-> text]
         /\ svc' = [raised |-> FALSE, tokens |-> TokenizeText(text)]
         /\ http' = NoHttp
         /\ UNCHANGED <<embedding, inflight, files, security, clock, granted, engine>>

\* EmbeddingService.clear_cache(): encode_query.cache_clear() empties the
\* cache and resets its counters; calls in flight keep what they hold
ClearCache ==
    /\ embedding' = [embedding EXCEPT !.cache = <<>>, !.hits = 0, !.misses = 0]
    /\ UNCHANGED <<files, security, clock, granted, engine, phase, op, req, env, svc, http, inflight>>

\* the steps that are the service's own code
ServiceStep(r) ==
    \/ CacheLookup(r)
    \/ EncodeBlank(r)
    \/ GetModel(r)
    \/ CacheStore(r)
    \/ ReturnHybrid(r)

\* the steps that wait for the embedding model or the database
BackendStep(r) ==
    \/ LoadModelReturns(r)
    \/ LoadModelRaises(r)
    \/ ModelEncodeReturns(r)
    \/ ModelEncodeRaises(r)
    \/ RpcReturns(r)
    \/ RpcRaises(r)

Next ==
    \/ LegacySearchGames
    \/ SearchGames
    \/ SemanticSearchEndpoint
    \/ HybridSearchEndpoint
    \/ Deliver

Spec == Init /\ [][Next]_vars

\* The requests of Spec together with direct calls of the fusion function
NextFusion ==
    \/ FuseLists
    \/ HybridSearchEndpoint
    \/ LegacySearchGames
    \/ Deliver

SpecFusion == Init /\ [][NextFusion]_vars

\* Calls of the linear fusion of search_algorithms.py
NextLinear ==
    \/ ApplyFusionRankingCall
    \/ Deliver

SpecLinear == Init /\ [][NextLinear]_vars

\* The tokenizers on texts of a few characters
NextTokenize ==
    \/ TokenizeCharsCall
    \/ TokenizeTextBm25Call
    \/ TokenizeTextCall
    \/ Deliver

SpecTokenize == Init /\ [][NextTokenize]_vars

\* The lexical scorer on arbitrary candidate lists
NextScoring ==
    \/ CalculateBm25ScoresBatchCall
    \/ Deliver

SpecScoring == Init /\ [][NextScoring]_vars

\* The persistence service over a sequence of saves and loads
NextPersistence ==
    \/ SaveSearchHistory
    \/ LoadSearchHistory
    \/ SaveUserPreferences
    \/ Deliver

SpecPersistence == Init /\ [][NextPersistence]_vars

\* The legacy engine over its life cycle
NextEngine ==
    \/ EngineInitialize
    \/ EngineShutdown
    \/ EngineSearchGames
    \/ LegacySearchEndpoint
    \/ Deliver

SpecEngine == Init /\ [][NextEngine]_vars

\* The rate limiter over time
NextRateLimit ==
    \/ Tick
    \/ CheckRateLimit
    \/ CleanupExpiredCache
    \/ BlockIp
    \/ UnblockIp
    \/ Deliver

SpecRateLimit == Init /\ [][NextRateLimit]_vars

\* The semantic pass with several requests in flight
NextSemanticPass ==
    \/ \E r \in Callers :
          \/ CallSemanticSearch(r)
          \/ ServiceStep(r)
          \/ BackendStep(r)
    \/ ClearCache

\* The service's own steps are always taken when they can be (the event loop
\* runs a ready coroutine); nothing in the code makes the model or the
\* database answer.
SpecSemanticPass ==
    /\ Init
    /\ [][NextSemanticPass]_vars
    /\ \A r \in Callers : WF_vars(ServiceStep(r))

-----------------------------------------------------------------------------
(* Properties *)

Responded(name) == phase = "responded" /\ op = name

\* a page went out to the caller of one of the three search endpoints
PageDelivered ==
    /\ phase = "responded"
    /\ op \in {"search", "semantic", "hybrid"}
    /\ http.status = 200

\* hybrid_search reached the semantic pass (relevance sort, non-blank query)
HybridRanked ==
    /\ Responded("hybrid")
    /\ req.sort_by = "relevance"
    /\ Strip(req.query) # ""

\* hybrid_search returned a fused list
Fused ==
    /\ HybridRanked
    /\ ~svc.raised
    /\ svc.search_type = "hybrid"

\* hybrid_search fell back to the lexical list
Degraded ==
    /\ HybridRanked
    /\ ~svc.raised
    /\ svc.search_type = "hybrid_fallback_bm25"

\* the rows the lexical pass of the request matches
LexicalMatches ==
    SeqFilter(Games, {g \in Range(Games) :
        (Strip(req.query) # "" => g.ilike) /\ Satisfies(g, req.filters)})

\* the lexical ranking of the request: matching rows, best BM25 score first
LexicalRanking ==
    StableSortDesc(LexicalMatches, [g \in Range(LexicalMatches) |-> env.bm25[g.appid]])

GameIdsOf(rows) == [i \in 1..Len(rows) |-> rows[i].appid]

\* the two lists hybrid_search hands to the fusion
HybridFetchLimit == FetchLimit(req.limit)
HybridLexicalList == Search(req.query, req.filters, "relevance", 0, HybridFetchLimit, env).results
HybridSemanticList == SemanticSearch(req.query, req.filters, HybridFetchLimit, 0, env).results

\* 1-based position of id in a list of ids, 0 when absent
RankIn(ids, id) ==
    IF \E i \in 1..Len(ids) : ids[i] = id
    THEN CHOOSE i \in 1..Len(ids) : ids[i] = id
    ELSE 0

\* C1: every item of a page returned by the lexical, semantic or hybrid
\* endpoint satisfies every non-null predicate of the request's filters.
C1_PageSatisfiesFilters ==
    PageDelivered =>
        \A i \in 1..Len(http.body.results) :
            Satisfies(GameById(http.body.results[i].game_id), req.filters)

\* C2: when the embedding backend fails during a hybrid request whose
\* lexical pass succeeded, the request still returns a page, and the page
\* is non-empty whenever lexical matches exist.
C2_EmbeddingFailureAbsorbed ==
    (HybridRanked /\ env.fault = "embed") =>
        /\ http.status = 200
        /\ (LexicalMatches # <<>> => http.body.results # <<>>)

C2_Witness ==
    /\ HybridRanked
    /\ env.fault = "embed"
    /\ LexicalMatches # <<>>
    /\ http.status = 200
    /\ Len(http.body.results) = 2

C4_DegradedIsSurfaced ==
    Degraded =>
        /\ http.status = 200
        /\ \E k \in {"degraded", "search_type", "fallback_reason"} : k \in DOMAIN http.body

\* C5: the fused list is sorted by fused score, descending, and two results
\* with the same fused score appear in ascending item id order.
C5_SortedTiesByIdAscending ==
    Fused =>
        \A i, j \in 1..Len(svc.results) :
            i < j =>
               \/ svc.results[i].fusion_key > svc.results[j].fusion_key
               \/ /\ svc.results[i].fusion_key = svc.results[j].fusion_key
                  /\ svc.results[i].game_id < svc.results[j].game_id

\* C6: the ranks of the ranked list of a request, after fusion and
\* filtering, are contiguous from 1: the i-th result has rank i.
C6_RanksContiguous ==
    (Responded("legacy") /\ ~svc.raised) =>
        \A i \in 1..Len(svc.results) : svc.results[i].rank = i

\* C7: no item id appears twice in a returned result list, also when the id
\* is in both input lists or several times in one input list.
C7_NoDuplicateIds ==
    (phase = "responded" /\ ~svc.raised) => IsInjective(Ids(svc.results))

C7_Witness ==
    /\ Responded("fuse")
    /\ ~IsInjective(Ids(env.bm25_results))
    /\ ~IsInjective(Ids(env.semantic_results))
    /\ Range(Ids(env.bm25_results)) \cap Range(Ids(env.semantic_results)) # {}
    /\ Len(svc.results) = 1

\* C8: the ids of the fused list (before pagination) are the union of the
\* ids of the lexical list and of the semantic list.
C8_FusedIdsAreUnion ==
    /\ Responded("fuse") =>
          Range(Ids(svc.results)) =
              Range(Ids(env.bm25_results)) \cup Range(Ids(env.semantic_results))
    /\ Fused =>
          LET union == Range(Ids(HybridLexicalList)) \cup Range(Ids(HybridSemanticList))
          IN  /\ svc.total = Cardinality(union)
              /\ Range(Ids(svc.results)) \subseteq union
              /\ Len(svc.results) = Min(req.limit, Cardinality(union) - Min(req.offset, Cardinality(union)))
    /\ (Responded("legacy") /\ CleanSearchQuery(req.query) # "" /\ req.filters = NoFilters) =>
          LET union == {id \in GameIds : GameById(id).lex \/ GameById(id).sem}
          IN  /\ Range(Ids(svc.results)) \subseteq union
              /\ Len(svc.results) = Min(req.limit, Cardinality(union))

C8_Witness ==
    /\ Responded("fuse")
    /\ Range(Ids(env.bm25_results)) \ Range(Ids(env.semantic_results)) # {}
    /\ Range(Ids(env.semantic_results)) \ Range(Ids(env.bm25_results)) # {}
    /\ Len(svc.results) = 3

\* C9: in RRF fusion the fused score of an item is
\* alpha * 1/(k + r_lex) + (1 - alpha) * 1/(k + r_sem), with k = 60, the
\* ranks 1-based, and 0 for a list the item is not in; the fusion_score
\* reported is that value rounded to 6 decimals.
C9_RrfScoreFormula ==
    Fused =>
        \A i \in 1..Len(svc.results) :
            LET id == svc.results[i].game_id
                r_lex == RankIn(Ids(HybridLexicalList), id)
                r_sem == RankIn(Ids(HybridSemanticList), id)
                lex == IF r_lex = 0 THEN 0 ELSE req.alpha * (RRFDen \div (60 + r_lex))
                sem == IF r_sem = 0 THEN 0 ELSE (AlphaDen - req.alpha) * (RRFDen \div (60 + r_sem))
            IN  /\ r_lex # 0 => RRFDen % (60 + r_lex) = 0
                /\ r_sem # 0 => RRFDen % (60 + r_sem) = 0
                /\ svc.results[i].fusion_key = lex + sem
                /\ svc.results[i].fusion_score = RoundTo(lex + sem, AlphaDen * RRFDen, 6)

C9_Witness ==
    /\ Fused
    /\ req.alpha = 1
    /\ req.offset = 0
    /\ Len(svc.results) = 2
    /\ RankIn(Ids(HybridLexicalList), svc.results[1].game_id) = 2
    /\ RankIn(Ids(HybridSemanticList), svc.results[1].game_id) = 1
    /\ RankIn(Ids(HybridSemanticList), svc.results[2].game_id) = 0

MaxScale == 3

\* C10: multiplying every raw lexical score of the request by the same
\* positive constant leaves the RRF fused ranking unchanged.
C10_RrfScaleInvariant ==
    Fused =>
        \A c \in 1..MaxScale :
            LET scaled == [env EXCEPT !.bm25 = [id \in GameIds |-> c * env.bm25[id]]]
                again == HybridSearch(req.query, req.filters, req.sort_by, req.limit,
                                      req.offset, req.alpha, scaled)
            IN  /\ again.total = svc.total
                /\ Ids(again.results) = Ids(svc.results)

C10_Witness ==
    /\ Fused
    /\ req.alpha = 1
    /\ \E id1, id2 \in GameIds : 0 < env.bm25[id1] /\ env.bm25[id1] < env.bm25[id2]
    /\ Len(svc.results) = 2
    /\ svc.results[1].bm25_score # None
    /\ svc.results[2].similarity_score # None

\* a list of the linear fusion is flat: non-empty with max_score == min_score
Flat(results) == results # <<>> /\ Cardinality(ScoreSet(results)) = 1

\* C11: in linear fusion, min-max normalization of a non-empty score list
\* whose maximum equals its minimum gives every entry the normalized score 1.0.
C11_FlatListNormalizesToOne ==
    Responded("linear") =>
        /\ Flat(env.bm25_results) =>
              \A i \in 1..Len(svc.bm25_normalized) :
                  svc.bm25_normalized[i].num = svc.bm25_den
        /\ Flat(env.faiss_results) =>
              \A i \in 1..Len(svc.faiss_normalized) :
                  svc.faiss_normalized[i].num = svc.faiss_den

\* the fused list of the same call with lexical weight a / AlphaDen
LinearAt(a) ==
    LinearFusionRanking(env.bm25_results, env.faiss_results, a, AlphaDen - a,
                        env.set_order).results

\* fused score of id in a fused list of the linear fusion, 0 when absent
LinearScore(results, id) ==
    IF \E i \in 1..Len(results) : results[i].game_id = id
    THEN results[CHOOSE i \in 1..Len(results) : results[i].game_id = id].score
    ELSE 0

\* the items with the highest lexical score and no semantic score
LexicalOnlyLeaders ==
    {id \in {env.bm25_results[i].game_id : i \in 1..Len(env.bm25_results)} :
        /\ NormalizedGet(svc.faiss_normalized, id) = 0
        /\ \A i \in 1..Len(env.bm25_results) :
               env.bm25_results[i].score <= LinearScore(env.bm25_results, id)}

ServiceAt(offset, limit) ==
    CASE op = "search" ->
           Search(req.query, req.filters, req.sort_by, offset, limit, env)
      [] op = "semantic" ->
           SemanticSearch(req.query, req.filters, limit, offset, env)
      [] op = "hybrid" ->
           HybridSearch(req.query, req.filters, req.sort_by, limit, offset, req.alpha, env)
      [] OTHER ->
           EngineSearchGamesResult(req.query, req.filters, limit, offset, env)

\* a page and its total came back from an endpoint or from the engine
PageReturned ==
    /\ phase = "responded"
    /\ op \in {"search", "semantic", "hybrid", "engine"}
    /\ ~svc.raised

\* C13: for a request whose total is T, asking for offset = T returns an
\* empty slice and still reports total = T, on every path, the degraded
\* lexical-only path of hybrid search included.
C13_OffsetAtTotalIsEmpty ==
    (PageReturned /\ req.offset = ServiceAt(0, req.limit).total) =>
        /\ svc.results = <<>>
        /\ svc.total = ServiceAt(0, req.limit).total

\* the violation on the degraded path of hybrid search alone
C13_DegradedOffsetAtTotalIsEmpty ==
    (Degraded /\ req.offset = ServiceAt(0, req.limit).total) =>
        /\ svc.results = <<>>
        /\ svc.total = ServiceAt(0, req.limit).total

\* C14: the total reported with a page is the number of candidates before
\* pagination: it is the same for every offset and limit of the request.
C14_TotalIndependentOfPage ==
    PageReturned =>
        \A o \in 0..MaxOffset, l \in 1..MaxLimit :
            ~ServiceAt(o, l).raised /\ ServiceAt(o, l).total = svc.total

\* a list of results for catalog games came back on any search path
ResultsReturned ==
    /\ phase = "responded"
    /\ op \in {"search", "semantic", "hybrid", "legacy", "engine"}
    /\ ~svc.raised

\* C15: a genre filter accepts an item only if the item contains every
\* listed genre; an item with some but not all of them is rejected.
C15_GenreFilterIsSubsetCheck ==
    ResultsReturned =>
        \A i \in 1..Len(svc.results) :
            req.filters.genres \subseteq GameById(svc.results[i].game_id).genres

\* the catalog could not be read while the request needed it
CatalogFetchFailed ==
    /\ phase = "responded"
    /\ \/ op \in {"search", "semantic", "hybrid"}
       \/ op = "engine" /\ IsValidQuery(req.query) /\ CleanSearchQuery(req.query) # ""
    /\ env.fault \in {"db", "rpc_missing_db_down"}

\* C16: a request during which fetching candidates from the catalog fails
\* ends in a failure propagated to the caller, never in a result page.
C16_FetchFailurePropagates ==
    CatalogFetchFailed => svc.raised

\* C17: for a fixed catalog, query, filters and fusion configuration, two
\* calls of search return the same items in the same order with the same
\* scores: the result does not depend on what the scorers draw at random.
C17_RepeatedCallsAgree ==
    Responded("legacy") =>
        \A b \in MockScores("lex"), sm \in MockScores("sem") :
            LegacySearchGamesResult(req.query, req.filters, req.limit,
                                    [env EXCEPT !.bm25 = b, !.sem = sm]) = svc.results

\* the ids of the catalog items that satisfy the filters, ascending
SatisfyingIds(f) ==
    StableSortAsc(SeqFilter(GameIdsOf(Games), {id \in GameIds : Satisfies(GameById(id), f)}),
                  [id \in GameIds |-> id])

\* C18: an empty query is not an error: search returns the catalog items
\* that satisfy the filters, in catalog order (all scores tie, ties go by
\* item id), the requested page of them.
C18_EmptyQueryReturnsCatalog ==
    (/\ phase = "responded"
     /\ op \in {"search", "hybrid", "engine"}
     /\ Strip(req.query) = ""
     /\ req.sort_by = "relevance"
     /\ env.fault = "none") =>
        /\ ~svc.raised
        /\ Ids(svc.results) = Slice(SatisfyingIds(req.filters), req.offset,
                                    req.offset + req.limit)

\* the semantic pass of request r waits for the model or the database
Waiting(r) == inflight[r].pc \in {"load", "encode", "rpc"}

\* the semantic pass of request r is over: fused, or given up for lexical only
Continued(r) == inflight[r].pc \in {"fused", "fallback"}

\* C19: a request whose semantic pass waits for the embedding backend or the
\* vector query always continues, to the fused answer or to the lexical
\* fallback, whether or not the backend answers
C19_SemanticPassNeverHangs == \A r \in Callers : Waiting(r) ~> Continued(r)

\* request r holds a value that encode_query returned to it
HoldsVector(r) == inflight[r].result # NoVector

\* C20: under every interleaving of the in-flight requests the cache holds
\* at most its capacity of entries, each key once, each with the vector of
\* its own key, and every request is handed the vector of its own query
C20_CacheNeverCorrupted ==
    /\ Len(embedding.cache) <= CacheMaxSize
    /\ \A i, j \in 1..Len(embedding.cache) :
          embedding.cache[i].key = embedding.cache[j].key => i = j
    /\ \A i \in 1..Len(embedding.cache) :
          embedding.cache[i].value = EncodeQueryValue(embedding.cache[i].key)
    /\ \A r \in Callers :
          HoldsVector(r) => inflight[r].result = EncodeQueryValue(inflight[r].query)

\* two requests missed on the same query and both computed it; one has stored
\* it into a cache that is now full, the other is about to store it again
C20_Witness ==
    /\ At(1, "rpc") /\ At(2, "store")
    /\ inflight[1].query = inflight[2].query
    /\ inflight[1].query \in CacheKeys(embedding.cache)
    /\ Len(embedding.cache) = CacheMaxSize
    /\ HoldsVector(1) /\ HoldsVector(2)

\* request r leaves the cache lookup in this step
LeavesLookup(r) == At(r, "lookup") /\ inflight'[r].pc # "lookup"

\* request r leaves the cache store in this step
LeavesStore(r) == At(r, "store") /\ inflight'[r].pc # "store"

C22_CacheBounded ==
    GetCacheInfo(embedding).currsize <= GetCacheInfo(embedding).maxsize

\* more queries were looked up and missed than the cache can hold, the cache
\* is full, and a request holds the vector of a query that is no longer cached
C22_Witness ==
    /\ GetCacheInfo(embedding).currsize = GetCacheInfo(embedding).maxsize
    /\ GetCacheInfo(embedding).misses > GetCacheInfo(embedding).maxsize
    /\ \E r \in Callers :
          /\ HoldsVector(r)
          /\ inflight[r].computed = 1
          /\ inflight[r].query \notin CacheKeys(embedding.cache)

\* a tokenizer returned its tokens
Tokenized == phase = "responded" /\ op \in {"_tokenize", "tokenize_text_bm25", "tokenize_text"}

C23_LegacyNoShortTokens ==
    (Tokenized /\ op # "_tokenize") =>
        \A i \in 1..Len(svc.tokens) : Len(svc.tokens[i]) >= 2

\* C24: for a query without tokens (empty, blank, punctuation only) the
\* lexical scorer does not raise and returns one score per candidate, each 0
C24_NoTokensAllZero ==
    (Responded("bm25_batch") /\ Tokenize(req.query) = <<>>) =>
        /\ ~svc.raised
        /\ Len(svc.scores) = Len(env.games)
        /\ \A i \in 1..Len(svc.scores) : svc.scores[i] = 0

\* a punctuation-only query scored against several candidates for which the
\* BM25 library would have given positive scores
C24_Witness ==
    /\ Responded("bm25_batch")
    /\ req.query = "!"
    /\ Len(env.games) >= 2
    /\ \A i \in 1..Len(env.games) : env.bm25[env.games[i].appid] > 0
    /\ Len(svc.scores) = Len(env.games)

HybridLexicalPass == Search(req.query, req.filters, "relevance", 0, HybridFetchLimit, env)
HybridSemanticPass == SemanticSearch(req.query, req.filters, HybridFetchLimit, 0, env)

\* the semantic pass returned results ranked by similarity
SimilarityRanked(pass) ==
    ~pass.raised /\ pass.search_type \in {"semantic", "semantic_python_fallback"}

\* C26: for a non-empty query with relevance sort and a lexical pass that
\* succeeded, hybrid_search returns with search_type hybrid or
\* hybrid_fallback_bm25; hybrid only when the semantic pass returned
\* similarity-ranked results, hybrid_fallback_bm25 whenever the semantic pass
\* raised or returned semantic_fallback_bm25
C26_HybridSearchType ==
    (HybridRanked /\ ~HybridLexicalPass.raised) =>
        /\ ~svc.raised
        /\ svc.search_type \in {"hybrid", "hybrid_fallback_bm25"}
        /\ svc.search_type = "hybrid" => SimilarityRanked(HybridSemanticPass)
        /\ ~SimilarityRanked(HybridSemanticPass) => svc.search_type = "hybrid_fallback_bm25"

\* the semantic pass did not raise but answered with its own lexical
\* fallback, and the hybrid request came back as hybrid_fallback_bm25
C26_Witness ==
    /\ HybridRanked
    /\ ~HybridLexicalPass.raised
    /\ ~HybridSemanticPass.raised
    /\ HybridSemanticPass.search_type = "semantic_fallback_bm25"
    /\ ~svc.raised
    /\ svc.search_type = "hybrid_fallback_bm25"
    /\ svc.results # <<>>

\* the lexical endpoint ranked a page by BM25
LexicalRanked ==
    /\ Responded("search")
    /\ req.sort_by = "relevance"
    /\ Strip(req.query) # ""
    /\ ~svc.raised

\* the page that follows the returned one, for the same request otherwise,
\* each row scored as in the returned page
NextLexicalPage ==
    Search(req.query, req.filters, req.sort_by, req.offset + req.limit, req.limit, env)

\* C27: with relevance sort and a non-empty query, every result of the page
\* at offset o has a BM25 score at least that of every result of the page at
\* offset o + limit
C27_PagesGloballyOrdered ==
    LexicalRanked =>
        \A i \in 1..Len(svc.results), j \in 1..Len(NextLexicalPage.results) :
            svc.results[i].bm25_score >= NextLexicalPage.results[j].bm25_score

\* how many calls for key k were allowed at a time in [from, from + RateWindow)
GrantedIn(k, from) ==
    Cardinality({i \in 1..Len(granted[k]) :
                    granted[k][i] >= from /\ granted[k][i] < from + RateWindow})

\* C28: for every key, in every window of RateWindow seconds, at most
\* MaxRequestsPerMinute calls of check_rate_limit returned True, whatever
\* blocks, cleanups and other calls happened
C28_RateLimitHolds ==
    \A k \in RateKeys, from \in 0..MaxTime : GrantedIn(k, from) <= MaxRequestsPerMinute

\* a key used up its window, was refused and blocked, the block ran out, a
\* cleanup removed nothing of it since, and a call after the block was allowed
C28_Witness ==
    /\ Responded("check_rate_limit")
    /\ svc.allowed
    /\ \E k \in RateKeys :
          /\ k = <<env.client_ip, env.endpoint>>
          /\ security.rate_limit_cache[k].blocked_until > 0
          /\ clock >= security.rate_limit_cache[k].blocked_until
          /\ Len(granted[k]) > MaxRequestsPerMinute
          /\ GrantedIn(k, 0) = MaxRequestsPerMinute

\* C29: search_games runs a search exactly when an initialize() call has
\* completed successfully and no shutdown() call was made since; otherwise
\* it raises RuntimeError and the search service is not called
C29_SearchOnlyWhileInitialized ==
    Responded("engine") =>
        IF engine.ready
        THEN ~svc.raised /\ env.search_calls = EngineSearchCalls(TRUE, req.query)
        ELSE svc = NotInitialized /\ env.search_calls = 0

\* a search with a valid query was refused after the engine had been
\* initialized and then shut down
C29_Witness ==
    /\ Responded("engine")
    /\ ~engine.ready
    /\ engine.stopped
    /\ svc = NotInitialized
    /\ IsValidQuery(req.query)
    /\ env.search_calls = 0

\* C30: every result dict built by POST /search/games has relevance_score
\* within [0, 1] and bm25_score >= 0, whatever the fused score and the
\* quality bonus are
C30_BuiltScoresInRange ==
    (Responded("legacy_endpoint") /\ ~svc.raised) =>
        \A i \in 1..Len(svc.formatted) :
            /\ 0 <= svc.formatted[i].relevance_score
            /\ svc.formatted[i].relevance_score <= ScoreOne
            /\ 0 <= svc.formatted[i].bm25_score

\* the part of C30 that the code does keep: relevance_score never exceeds 1
C30_RelevanceAtMostOne ==
    (Responded("legacy_endpoint") /\ ~svc.raised) =>
        \A i \in 1..Len(svc.formatted) : svc.formatted[i].relevance_score <= ScoreOne

\* and a response that is delivered with status 200 carries only results
\* with scores in range
C30_DeliveredScoresInRange ==
    (Responded("legacy_endpoint") /\ http.status = 200) =>
        \A i \in 1..Len(http.body.results) : GameResultValid(http.body.results[i])

====
